---- MODULE Spec2Model ----
(***************************************************************************)
(* MTE Relay browser client: the orchestrator (mteFetch / sendMteRequest), *)
(* the origin status machine, the client id cache, the pair id queue, the  *)
(* pairing protocol and the session state cache.                           *)
(*                                                                         *)
(* JavaScript runs every piece of code between two awaits to completion,   *)
(* so one action is one such piece of one in-flight call or one background *)
(* pairing; the pieces of different calls interleave freely.  The relay    *)
(* server, the transport and the MTE engine are the environment: what they *)
(* answer is chosen with \E, and every answer other than the regular one   *)
(* is counted in `faults`.                                                 *)
(***************************************************************************)
EXTENDS Naturals, Integers, Sequences, FiniteSets, TLC

\* ---------------------------------------------------------------- bounds
NumCalls == 2            \* mteFetch calls issued by the application
MaxFaults == 2           \* irregular answers of server, transport and engine
NUMBER_OF_PAIRS == 2     \* options.numberOfPairs of initMteRelayClient
PollLimit == 19          \* for (let i = 1; i < 20; ++i)

Calls == 1..NumCalls
Origins == {"o1"}
ClientIds == {"c1", "c2"}
NoClient == ""           \* undefined, null and "" are all falsy
OriginStatus == {"paired", "invalid", "validate", "pending"}
NoStatus == "none"       \* no cache item under origin-status:<origin>

\* MteRelayError: MTE_ERRORS
RepairRequired == 559
StateNotFound == 560
FailedToEncode == 561
FailedToDecode == 562
FailedToGetState == 563
DrbgReseedRequired == 564
MteStatusNotSuccessful == 565
InvalidClientId == 566
statusCodes ==
  {RepairRequired, StateNotFound, FailedToEncode, FailedToDecode,
   FailedToGetState, DrbgReseedRequired, MteStatusNotSuccessful, InvalidClientId}

\* statuses the relay server is taken to answer with (one pair-specific, one origin-wide)
ServerStatuses == {StateNotFound, InvalidClientId}
\* statuses decode() raises besides "State not found."
DecodeFailures == {FailedToDecode, DrbgReseedRequired}

isMteErrorStatus(status) == status \in statusCodes

\* ---------------------------------------------------------------- errors
MteRelayError(status) == [mte |-> TRUE, status |-> status, msg |-> "MteRelayError"]
\* the message texts are kept at the throw sites; no code reads a message
Error(msg) == [mte |-> FALSE, status |-> 0, msg |-> "Error"]
NoError == [mte |-> FALSE, status |-> 0, msg |-> ""]

VARIABLES
  calls,          \* per mteFetch call: the locals of sendMteRequest and its position
  originStatus,   \* cache: origin-status:<origin>
  clientIdCache,  \* cache: clientid:<origin>
  localStorage,   \* window.localStorage: clientid:<origin>
  pairIds,        \* cache: pairids:<origin>, the round-robin queue
  encDecState,    \* state cache: the keys encoder.<origin>.<pairId>, decoder.<origin>.<pairId>
  bg,             \* background pairings started by pairWithOrigin(origin, 1)
  nextId,         \* generateRandomId: the next unused pair id
  faults,         \* irregular answers so far
  rec,            \* the record cache of src/mte/cache.ts and the callers of its getter
  remote,         \* origin-records.ts: cache (origin -> RemoteRecord) and serversContacted
  wire,           \* format-mte-info-header.ts: options, the x-mte-relay header, its parse
  codec,          \* mte-fetch/request.ts, response.ts: a message, encoded, decoded
  engine          \* encoder-decoder-pools.ts, mte-helpers: the pools, the state cache, encode/decode calls

\* the variables of the unit specifications, which the relay's actions leave alone
units == <<remote, wire, codec, engine>>

\* the variables of the relay
relay == <<calls, originStatus, clientIdCache, localStorage, pairIds, encDecState,
           bg, nextId, faults, rec>>

vars == <<calls, originStatus, clientIdCache, localStorage, pairIds, encDecState,
          bg, nextId, faults, rec, remote, wire, codec, engine>>


\* ---------------------------------------------------------------- the world
\* The shared caches and the calls, as one record w: the synchronous code of one
\* action is a composition of operators on w, committed at the end of the action.
World ==
  [calls |-> calls, originStatus |-> originStatus, clientIdCache |-> clientIdCache,
   localStorage |-> localStorage, pairIds |-> pairIds, bg |-> bg, nextId |-> nextId]

Commit(w) ==
  /\ calls' = w.calls
  /\ originStatus' = w.originStatus
  /\ clientIdCache' = w.clientIdCache
  /\ localStorage' = w.localStorage
  /\ pairIds' = w.pairIds
  /\ bg' = w.bg
  /\ nextId' = w.nextId

SetCall(w, c, cs) == [w EXCEPT !.calls[c] = cs]

\* ---------------------------------------------------------------- origin status
\* getOriginStatus: the value returned
getOriginStatusValue(w, origin) ==
  IF w.originStatus[origin] # NoStatus THEN w.originStatus[origin] ELSE "validate"

\* getOriginStatus: without the setCacheItem(key, "pending") of a first read
getOriginStatusNoRecord(w, origin) == w

\* getOriginStatus: the cache after the call
getOriginStatusWorld(w, origin) ==
  IF w.originStatus[origin] # NoStatus
    THEN w
    ELSE [w EXCEPT !.originStatus[origin] = "pending"]

setOriginStatus(w, origin, status) == [w EXCEPT !.originStatus[origin] = status]

\* ---------------------------------------------------------------- client ids
useLocalStorage == TRUE   \* typeof window !== "undefined" && window.localStorage

\* getClientId: the value returned
getClientIdValue(w, origin) ==
  IF w.clientIdCache[origin] = NoClient /\ useLocalStorage
    THEN w.localStorage[origin]
    ELSE w.clientIdCache[origin]

\* getClientId: the cache after the call (a hit in localStorage is copied to the cache)
getClientIdWorld(w, origin) ==
  IF w.clientIdCache[origin] = NoClient /\ useLocalStorage
     /\ w.localStorage[origin] # NoClient
    THEN [w EXCEPT !.clientIdCache[origin] = w.localStorage[origin]]
    ELSE w

\* setClientId that stores nothing
setClientIdDropped(w, origin, clientId) == w

setClientId(w, origin, clientId) ==
  [w EXCEPT !.clientIdCache[origin] = clientId,
            !.localStorage[origin] =
               IF useLocalStorage THEN clientId ELSE w.localStorage[origin]]

\* deleteClientId that forgets to delete
deleteClientIdKept(w, origin) == w

deleteClientId(w, origin) ==
  [w EXCEPT !.clientIdCache[origin] = NoClient,
            !.localStorage[origin] =
               IF useLocalStorage THEN NoClient ELSE w.localStorage[origin]]

\* ---------------------------------------------------------------- pair id queue
\* pairids:<origin> is undefined until the first addPairIdToQueue
NoQueue == [exists |-> FALSE, ids |-> <<>>]
Queue(ids) == [exists |-> TRUE, ids |-> ids]

InSeq(x, s) == \E i \in 1..Len(s) : s[i] = x
Without(s, x) == SelectSeq(s, LAMBDA y : y # x)

\* an add that starts the queue afresh
addPairIdToQueueFresh(w, origin, pairId) ==
  [w EXCEPT !.pairIds[origin] = Queue(<<pairId>>)]

\* addPairIdToQueue: queue.push(pairId), on the queue of the origin or a new one
addPairIdToQueue(w, origin, pairId) ==
  [w EXCEPT !.pairIds[origin] = Queue(Append(w.pairIds[origin].ids, pairId))]

\* getNextPairIdFromQueue: the error thrown, NoError when an id is returned
getNextPairIdError(w, origin) ==
  IF ~w.pairIds[origin].exists THEN Error("No queue found for origin.")
  ELSE IF w.pairIds[origin].ids = <<>> THEN Error("No ID in queue.")
  ELSE NoError

\* getNextPairIdFromQueue that returns the head and leaves it at the head
getNextPairIdNoRotate(w, origin) == w

\* getNextPairIdFromQueue: queue.shift(), queue.push(id)
getNextPairIdWorld(w, origin) ==
  LET q == w.pairIds[origin].ids
  IN  [w EXCEPT !.pairIds[origin] = Queue(Append(Tail(q), Head(q)))]

\* deletePairIdFromQueue: the error thrown, NoError when the id is removed
deletePairIdError(w, origin, pairId) ==
  IF ~w.pairIds[origin].exists THEN Error("No queue found for origin.")
  ELSE IF ~InSeq(pairId, w.pairIds[origin].ids) THEN Error("No pairId found for origin.")
  ELSE NoError

\* a delete that empties the queue
deletePairIdFromQueueAll(w, origin, pairId) ==
  [w EXCEPT !.pairIds[origin] = Queue(<<>>)]

\* deletePairIdFromQueue: queue.splice(index, 1); pair ids in a queue are distinct
deletePairIdFromQueue(w, origin, pairId) ==
  [w EXCEPT !.pairIds[origin] = Queue(Without(w.pairIds[origin].ids, pairId))]

\* the pair ids now in the queue of origin o
QueuedIds(o) == {pairIds[o].ids[k] : k \in 1..Len(pairIds[o].ids)}

\* ---------------------------------------------------------------- state cache
StateKey(role, origin, pairId) == <<role, origin, pairId>>
getEncDecState(sc, id) == id \in sc
\* a set that replaces the cache
setEncDecStateAlone(sc, id) == {id}
setEncDecState(sc, id) == sc \cup {id}

\* ---------------------------------------------------------------- pairing
\* One run of pairWithOrigin: the pair ids it generated are first .. first+asked-1
\* (generateRandomId never repeats an id), n is pairResponseData.length and j the
\* loop index (from 1).  The server answers the ids it was sent, in order.
NoTask == [pc |-> "off", origin |-> "", first |-> 0, asked |-> 0, n |-> 0, j |-> 0,
           err |-> NoError]
TaskIds(t) == {t.first + k : k \in 0..(t.asked - 1)}
TaskPairId(t) == t.first + t.j - 1
TaskFailed(t, e) == [t EXCEPT !.pc = "failed", !.err = e, !.n = 0, !.j = 0]
TaskOk(t) == [t EXCEPT !.pc = "ok", !.n = 0, !.j = 0]

\* numberOfPairs || NUMBER_OF_PAIRS, with numberOfPairs = 0 for undefined
iMax(numberOfPairs) == IF numberOfPairs # 0 THEN numberOfPairs ELSE NUMBER_OF_PAIRS

\* pairWithOrigin up to its fetch of /api/mte-pair: the task it becomes
pairWithOriginTask(w, origin, numberOfPairs) ==
  IF getClientIdValue(w, origin) = NoClient
    THEN TaskFailed([NoTask EXCEPT !.origin = origin], Error("Client ID is not set."))
    ELSE [NoTask EXCEPT !.pc = "post", !.origin = origin, !.first = w.nextId,
                        !.asked = iMax(numberOfPairs)]

\* pairWithOrigin up to its fetch: the cache after it
pairWithOriginWorld(w, origin, numberOfPairs) ==
  IF getClientIdValue(w, origin) = NoClient
    THEN w
    ELSE [getClientIdWorld(w, origin) EXCEPT !.nextId = w.nextId + iMax(numberOfPairs)]

Step(t, w, sc, fault) == [t |-> t, w |-> w, sc |-> sc, fault |-> fault]

\* the client id a regular answer carries: the one the client presented, else a new one
RegularClientId(w, origin) ==
  IF getClientIdValue(w, origin) # NoClient THEN getClientIdValue(w, origin) ELSE "c1"

\* the client ids an answer may carry, each with what it costs
AnswerClientIds(w, origin, S) ==
  { [cid |-> cid, fault |-> IF cid = RegularClientId(w, origin) THEN 0 ELSE 1] : cid \in S }

\* instantiateEncoder after `await setEncDecState(encoder...)`: the queue.  (The encoder
\* state of a pair id is read only by a call that acquired the id from the queue, so
\* the write of the state and the enqueueing are one step here.)
instantiateEncoderWorld(w, origin, pairId) == addPairIdToQueue(w, origin, pairId)

\* One pass of the loop of pairWithOrigin from `const _kyber = kyber[j]` to the await
\* inside instantiateEncoder, or the end of the loop.
LoopEntry(t, w, sc, fault) ==
  LET o == t.origin IN
  IF t.j > t.n
    THEN { Step(TaskOk(t), w, sc, fault) }
  ELSE IF t.j > t.asked
    \* kyber[j] is undefined
    THEN { Step(TaskFailed(t, Error("TypeError")), w, sc, fault) }
  ELSE
    { Step(TaskFailed(t, Error("Failed to decrypt the secret.")), w, sc, fault + 1),
      \* instantiateEncoder: validateStatusIsSuccess throws
      Step(TaskFailed(t, MteRelayError(MteStatusNotSuccessful)), w, sc, fault + 1),
      \* instantiateEncoder: setEncDecState(encoder...), addPairIdToQueue
      Step([t EXCEPT !.pc = "dec"], instantiateEncoderWorld(w, o, TaskPairId(t)),
           setEncDecState(sc, StateKey("encoder", o, TaskPairId(t))), fault) }

\* The continuations of pairWithOrigin after its fetch: every way task t can go on
\* from its position.
PairNext(t, w, sc) ==
  LET o == t.origin IN
  CASE t.pc = "post" ->
         \* fetch rejects; !response.ok; the x-mte-relay header is missing
         { Step(TaskFailed(t, Error(m)), w, sc, 1) :
             m \in {"fetch failed", "Failed to pair. Response not ok.",
                    "Response is missing header"} }
         \cup
         \* setClientId(origin, parsedRelayHeaders.clientId), then await response.json()
         { Step([t EXCEPT !.pc = "json"], setClientId(w, o, a.cid), sc, a.fault) :
             a \in AnswerClientIds(w, o, ClientIds \cup {NoClient}) }
    [] t.pc = "json" ->
         { Step(TaskFailed(t, Error("Unexpected token in JSON")), w, sc, 1) }
         \cup
         UNION { LoopEntry([t EXCEPT !.n = n, !.j = 1], w, sc,
                           IF n = t.asked THEN 0 ELSE 1) : n \in 0..(t.asked + 1) }
    [] t.pc = "dec" ->
         { \* instantiateDecoder: validateStatusIsSuccess throws
           Step(TaskFailed(t, MteRelayError(MteStatusNotSuccessful)), w, sc, 1),
           \* instantiateDecoder: await setEncDecState(decoder...)
           Step([t EXCEPT !.pc = "loop", !.j = t.j + 1], w,
                setEncDecState(sc, StateKey("decoder", o, TaskPairId(t))), 0) }
    [] t.pc = "loop" -> LoopEntry(t, w, sc, 0)
    [] OTHER -> {}

\* ---------------------------------------------------------------- sendMteRequest
\* The locals of one mteFetch call.  pairId 0 is the initial "".  Fields below the
\* line record what happened (they are never read by the code).
IdleCall ==
  [pc |-> "idle", origin |-> "", isLastAttempt |-> FALSE, revalidateServer |-> FALSE,
   status |-> "", i |-> 0, pairId |-> 0, respPairId |-> 0, respClientId |-> NoClient,
   pair |-> NoTask,
   \* ----
   runs |-> 0,            \* invocations of sendMteRequest
   sends |-> 0,           \* times the primary request was handed to fetch
   probed |-> FALSE,      \* this attempt's probe succeeded
   caught |-> NoError,    \* the error the catch block caught last
   firstErr |-> NoError,  \* the error the first attempt's catch block caught
   failedPair |-> 0,      \* pair whose state the first attempt's failing encode or decode used
   outcome |-> NoError]   \* the error the call rejected with

Finished(cs) == cs.pc \in {"done", "failed"}

\* The promise of mteFetch settles: the locals of the call are gone, what is left
\* is the record of what happened and the error the caller sees.
Settled(cs, pc, e) ==
  [IdleCall EXCEPT !.pc = pc, !.origin = cs.origin, !.pair = cs.pair, !.runs = cs.runs,
                   !.caught = cs.caught, !.firstErr = cs.firstErr, !.outcome = e]

Reject(w, c, e) == SetCall(w, c, Settled(w.calls[c], "failed", e))
Resolve(w, c) == SetCall(w, c, Settled(w.calls[c], "done", NoError))

\* error instanceof MteRelayError, taken to hold of every error
instanceofAnyError(e) == TRUE

\* error instanceof MteRelayError
instanceofMteRelayError(e) == e.mte

\* requestOptions of a retry that does not mark itself as the last attempt
RetryOptionsUnmarked(revalidateServer) ==
  [revalidateServer |-> revalidateServer, isLastAttempt |-> FALSE]

\* requestOptions of the retry: { revalidateServer, isLastAttempt: true }
RetryOptions(revalidateServer) ==
  [revalidateServer |-> revalidateServer, isLastAttempt |-> TRUE]

\* sendMteRequest from its first line to its first await (await getOriginStatus)
sendMteRequest(w, c, requestOptions) ==
  LET cs == w.calls[c]
      v == getOriginStatusValue(w, cs.origin)
  IN  SetCall(getOriginStatusWorld(w, cs.origin), c,
        [cs EXCEPT !.pc = "status",
                   !.isLastAttempt = requestOptions.isLastAttempt,
                   !.revalidateServer = requestOptions.revalidateServer,
                   !.status = v, !.i = 0, !.pairId = 0, !.respPairId = 0,
                   !.respClientId = NoClient,
                   !.pair = NoTask, !.probed = FALSE,
                   !.runs = @ + 1])

\* The catch block of sendMteRequest, entered with error e; it ends with the call
\* rejected or with the retry at its first await.
Catch(w0, c, e) ==
  LET cs0 == w0.calls[c]
      o == cs0.origin
      w == SetCall(w0, c, [cs0 EXCEPT !.caught = e,
                                      !.firstErr = IF cs0.runs = 1 THEN e ELSE @])
      cs == w.calls[c]
  IN
  IF instanceofMteRelayError(e)
    THEN
      IF e.status = InvalidClientId
        THEN \* serverside secret changed, revalidate server
          LET w1 == deleteClientId(setOriginStatus(w, o, "pending"), o) IN
          IF cs.isLastAttempt
            THEN Reject(w1, c, Error("Origin is not an MTE Relay server."))
            ELSE sendMteRequest(w1, c, RetryOptions(TRUE))
        ELSE \* replace this pair with a new one
          IF deletePairIdError(w, o, cs.pairId) # NoError
            THEN Reject(w, c, deletePairIdError(w, o, cs.pairId))
            ELSE
              LET w1 == deletePairIdFromQueue(w, o, cs.pairId)
                  t == pairWithOriginTask(w1, o, 1)
                  w2 == pairWithOriginWorld(w1, o, 1)
                  w3 == [w2 EXCEPT !.bg = Append(@, t)]
              IN  IF ~cs.isLastAttempt
                    THEN sendMteRequest(w3, c, RetryOptions(FALSE))
                    ELSE Reject(w3, c, e)
    ELSE Reject(w, c, e)

\* the test of an invalid status, left out
statusIsInvalidSkipped(status) == FALSE

\* if (originStatus === "invalid")
statusIsInvalid(status) == status = "invalid"

\* sendMteRequest from `if (originStatus === "invalid")` to `await getNextPairIdFromQueue`
AcquirePair(w, c) ==
  LET cs == w.calls[c]
      o == cs.origin
      w1 == getClientIdWorld(w, o)
  IN
  IF statusIsInvalid(cs.status)
    THEN Catch(w, c, Error("Origin is not an MTE Relay server."))
  ELSE IF getClientIdValue(w, o) = NoClient
    THEN Catch(w1, c, Error("Origin is missing ClientId"))
  ELSE IF getNextPairIdError(w1, o) # NoError
    THEN Catch(w1, c, getNextPairIdError(w1, o))
  ELSE SetCall(getNextPairIdWorld(w1, o), c,
               [cs EXCEPT !.pc = "acquired", !.i = 0, !.pairId = Head(w1.pairIds[o].ids)])

\* ---------------------------------------------------------------- record cache
\* src/mte/cache.ts keeps one RemoteRecord object per origin behind an async getter.
\* rec.records are the record objects made so far (their status), rec.cache the
\* object cached under the origin (0: none), and each caller of the getter has its
\* position, the object its getCacheItem read, and what it does with the answer.
NumCallers == 3
Callers == 1..NumCallers
IdleCaller == [pc |-> "idle", got |-> 0, after |-> "", want |-> "", first |-> ""]
NoRecords == [cache |-> 0, records |-> <<>>, callers |-> [k \in Callers |-> IdleCaller]]

\* createNewRemoteRecord: setCacheItem(origin, record) with status "pending"
createNewRemoteRecord(r) ==
  [r EXCEPT !.records = Append(@, "pending"), !.cache = Len(r.records) + 1]

\* getRemoteRecordByOrigin up to `await getCacheItem(origin)`: cache[key] is read now
getRemoteRecordByOrigin(r, k, after, want) ==
  [r EXCEPT !.callers[k] = [@ EXCEPT !.pc = "get", !.got = r.cache,
                                     !.after = after, !.want = want]]

\* what the caller does with the status of the record it was given
Directive(cr, status) ==
  [cr EXCEPT !.pc = CASE status = "validate-now" -> "validate"
                      [] status = "pending" -> "poll"
                      [] status = "paired" -> "use"
                      [] OTHER -> "failed",
             !.got = 0, !.after = "", !.want = "",
             !.first = IF cr.after = "entry" THEN status ELSE @]

\* getRemoteRecordByOrigin after the await, and the caller's code that follows it
RecordReturned(r, k) ==
  LET cr == r.callers[k] IN
  IF cr.after = "set"
    THEN \* setRemoteStatus: record.status = options.status; setCacheItem(origin, record)
      IF cr.got = 0
        THEN LET r1 == createNewRemoteRecord(r) IN
             [r1 EXCEPT !.records = Append(@, cr.want), !.cache = Len(r1.records) + 1,
                        !.callers[k] = Directive(cr, cr.want)]
        ELSE [r EXCEPT !.records[cr.got] = cr.want, !.cache = cr.got,
                       !.callers[k] = Directive(cr, cr.want)]
    ELSE
      IF cr.got = 0
        THEN [createNewRemoteRecord(r) EXCEPT !.callers[k] = Directive(cr, "validate-now")]
        ELSE [r EXCEPT !.callers[k] = Directive(cr, r.records[cr.got])]

\* sendMteRequest: `let serverRecord = await getRemoteRecordByOrigin(remoteOrigin)`
RecordCall(k) ==
  /\ rec.callers[k].pc = "idle"
  /\ rec' = getRemoteRecordByOrigin(rec, k, "entry", "")
  /\ UNCHANGED <<calls, originStatus, clientIdCache, localStorage, pairIds, encDecState,
                 bg, nextId, faults, units>>

\* the awaited getCacheItem resolves
RecordResume(k) ==
  /\ rec.callers[k].pc = "get"
  /\ rec' = RecordReturned(rec, k)
  /\ UNCHANGED <<calls, originStatus, clientIdCache, localStorage, pairIds, encDecState,
                 bg, nextId, faults, units>>

\* the handshake of a caller told to validate ends: setRemoteStatus(paired | invalid)
RecordSetStatus(k) ==
  /\ rec.callers[k].pc = "validate"
  /\ \E s \in {"paired", "invalid"} : rec' = getRemoteRecordByOrigin(rec, k, "set", s)
  /\ UNCHANGED <<calls, originStatus, clientIdCache, localStorage, pairIds, encDecState,
                 bg, nextId, faults, units>>

\* a waiting caller rechecks: serverRecord = await getRemoteRecordByOrigin(remoteOrigin)
RecordPoll(k) ==
  /\ rec.callers[k].pc = "poll"
  /\ rec' = getRemoteRecordByOrigin(rec, k, "poll", "")
  /\ UNCHANGED <<calls, originStatus, clientIdCache, localStorage, pairIds, encDecState,
                 bg, nextId, faults, units>>

\* the unit specifications not in use
NoWire == [pc |-> "none"]
NoCodec == [pc |-> "none"]

\* ---------------------------------------------------------------- origin records
\* src/mte/cache/origin-records.ts: a Map from origin to RemoteRecord and the list
\* serversContacted.  remote.last is the last setRemoteStatus applied (none after
\* another operation) and remote.repeated tells that it was applied twice in a row.
RemoteQueueMax == 2
RemoteIds == 1..RemoteQueueMax
RemoteStatus == {"pending", "paired", "invalid"}
NoRemoteRecord == [exists |-> FALSE, status |-> "", clientId |-> NoClient, pairIdQueue |-> <<>>]
RemoteRecord(status) ==
  [exists |-> TRUE, status |-> status, clientId |-> NoClient, pairIdQueue |-> <<>>]
NoSet == [status |-> "", clientId |-> NoClient]
NoRemote ==
  [cache |-> [o \in Origins |-> NoRemoteRecord], serversContacted |-> {},
   last |-> NoSet, repeated |-> FALSE]

\* createNewRemoteRecord: caches a pending record, returns another with validate-now
createNewRemoteRecordSync(m, origin) ==
  [m |-> [m EXCEPT !.cache[origin] = RemoteRecord("pending")],
   record |-> RemoteRecord("validate-now")]

\* getRemoteRecordByOrigin of origin-records.ts: the store after the call and the
\* record returned (the cached object itself when there is one)
getRemoteRecordByOriginSync(m, origin) ==
  IF m.cache[origin].exists
    THEN [m |-> m, record |-> m.cache[origin]]
  ELSE IF origin \notin m.serversContacted
    THEN createNewRemoteRecordSync(
           [m EXCEPT !.serversContacted = @ \cup {origin}], origin)
  ELSE [m |-> m, record |-> RemoteRecord("pending")]

\* setRemoteStatus that stores options.clientId whether it is given or not
setRemoteStatusClientIdAlways(m, origin, status, clientId) ==
  LET g == getRemoteRecordByOriginSync(m, origin)
  IN  [g.m EXCEPT !.cache[origin] =
         [g.record EXCEPT !.status = status, !.clientId = clientId]]

\* setRemoteStatus: record.status = options.status; if (options.clientId)
\* record.clientId = options.clientId; cache.set(options.origin, record).
\* clientId = NoClient is a call without clientId.
setRemoteStatus(m, origin, status, clientId) ==
  LET g == getRemoteRecordByOriginSync(m, origin)
  IN  [g.m EXCEPT !.cache[origin] =
         [g.record EXCEPT !.status = status,
                          !.clientId = IF clientId # NoClient THEN clientId ELSE @]]

\* addPairIdToQueue of origin-records.ts
remoteAddPairIdToQueue(m, origin, pairId) ==
  LET g == getRemoteRecordByOriginSync(m, origin)
  IN  [g.m EXCEPT !.cache[origin] =
         [g.record EXCEPT !.pairIdQueue = Append(@, pairId)]]

\* getNextPairIdFromQueue of origin-records.ts: shift, push; an empty queue throws
\* after the record was looked up
remoteGetNextPairIdFromQueue(m, origin) ==
  LET g == getRemoteRecordByOriginSync(m, origin)
      q == g.record.pairIdQueue
  IN  IF q = <<>> THEN g.m
      ELSE [g.m EXCEPT !.cache[origin] =
              [g.record EXCEPT !.pairIdQueue = Append(Tail(q), Head(q))]]

\* deleteIdFromQueue of origin-records.ts: splice(indexOf(pairId), 1)
remoteDeleteIdFromQueue(m, origin, pairId) ==
  LET g == getRemoteRecordByOriginSync(m, origin)
      q == g.record.pairIdQueue
      at == IF InSeq(pairId, q) THEN CHOOSE i \in 1..Len(q) :
                                       q[i] = pairId /\ \A j \in 1..(i - 1) : q[j] # pairId
            ELSE 0
  IN  [g.m EXCEPT !.cache[origin] =
         [g.record EXCEPT !.pairIdQueue =
            IF at = 0 THEN q
            ELSE SubSeq(q, 1, at - 1) \o SubSeq(q, at + 1, Len(q))]]

Other(m) == [m EXCEPT !.last = NoSet, !.repeated = FALSE]

RemoteGet(o) ==
  /\ remote' = Other(getRemoteRecordByOriginSync(remote, o).m)
  /\ UNCHANGED <<relay, wire, codec, engine>>

RemoteSetStatus(o, status, clientId) ==
  /\ remote' = [setRemoteStatus(remote, o, status, clientId) EXCEPT
                  !.last = [status |-> status, clientId |-> clientId],
                  !.repeated = (remote.last = [status |-> status, clientId |-> clientId])]
  /\ UNCHANGED <<relay, wire, codec, engine>>

RemoteAddPairId(o, pairId) ==
  /\ Len(remote.cache[o].pairIdQueue) < RemoteQueueMax
  /\ remote' = Other(remoteAddPairIdToQueue(remote, o, pairId))
  /\ UNCHANGED <<relay, wire, codec, engine>>

RemoteGetNextPairId(o) ==
  /\ remote' = Other(remoteGetNextPairIdFromQueue(remote, o))
  /\ UNCHANGED <<relay, wire, codec, engine>>

RemoteDeleteId(o, pairId) ==
  /\ remote' = Other(remoteDeleteIdFromQueue(remote, o, pairId))
  /\ UNCHANGED <<relay, wire, codec, engine>>

\* setOriginStatus(origin, status) of the relay's status cache
StatusSet(o, status) ==
  /\ Commit(setOriginStatus(World, o, status))
  /\ UNCHANGED <<encDecState, faults, rec, units>>

\* setClientId(origin, clientId)
ClientIdSet(o, clientId) ==
  /\ Commit(setClientId(World, o, clientId))
  /\ UNCHANGED <<encDecState, faults, rec, units>>

\* ---------------------------------------------------------------- wire header
\* format-mte-info-header.ts.  A string is a sequence of characters; a word that
\* holds no comma ("MTE", "true") is written as one character.
WireIdLen == 2
WireChars == {"a", "1", ","}
WireIds == UNION {[1..n -> WireChars] : n \in 0..WireIdLen}
EncDecType == {"MTE", "MKE"}
WireOptions ==
  [type : EncDecType, urlIsEncoded : BOOLEAN, headersAreEncoded : BOOLEAN,
   bodyIsEncoded : BOOLEAN, clientId : WireIds, pairId : WireIds]

\* Array.prototype.join(","): the elements with a comma between neighbours
RECURSIVE join(_)
join(args) ==
  IF args = <<>> THEN <<>>
  ELSE IF Len(args) = 1 THEN args[1]
  ELSE args[1] \o <<",">> \o join(Tail(args))

\* String.prototype.split(","): the pieces between the commas, at least one piece
RECURSIVE split(_)
split(str) ==
  IF ~InSeq(",", str) THEN <<str>>
  ELSE LET i == CHOOSE k \in 1..Len(str) :
                  str[k] = "," /\ \A j \in 1..(k - 1) : str[j] # ","
       IN  <<SubSeq(str, 1, i - 1)>> \o split(SubSeq(str, i + 1, Len(str)))

\* args[i] of a JavaScript array: undefined past its end
undefined == <<"undefined">>
At(args, i) == IF i + 1 \in 1..Len(args) THEN args[i + 1] ELSE undefined

\* formatMteRelayHeader with pairId pushed before clientId
formatMteRelayHeaderSwapped(options) ==
  join(<<options.pairId,
         options.clientId,
         IF options.type = "MTE" THEN <<"0">> ELSE <<"1">>,
         IF options.urlIsEncoded THEN <<"1">> ELSE <<"0">>,
         IF options.headersAreEncoded THEN <<"1">> ELSE <<"0">>,
         IF options.bodyIsEncoded THEN <<"1">> ELSE <<"0">> >>)

\* formatMteRelayHeader: args.push(...) six times, args.join(",")
formatMteRelayHeader(options) ==
  join(<<options.clientId,
         options.pairId,
         IF options.type = "MTE" THEN <<"0">> ELSE <<"1">>,
         IF options.urlIsEncoded THEN <<"1">> ELSE <<"0">>,
         IF options.headersAreEncoded THEN <<"1">> ELSE <<"0">>,
         IF options.bodyIsEncoded THEN <<"1">> ELSE <<"0">> >>)

\* parseMteRelayHeader: header.split(","), the fields by position
parseMteRelayHeader(header) ==
  LET args == split(header)
  IN  [type |-> IF At(args, 2) = <<"0">> THEN "MTE" ELSE "MKE",
       urlIsEncoded |-> At(args, 3) = <<"1">>,
       headersAreEncoded |-> At(args, 4) = <<"1">>,
       bodyIsEncoded |-> At(args, 5) = <<"1">>,
       clientId |-> At(args, 0),
       pairId |-> At(args, 1)]

Format ==
  /\ wire.pc = "options"
  /\ wire' = [wire EXCEPT !.pc = "formatted", !.header = formatMteRelayHeader(wire.options)]
  /\ UNCHANGED <<relay, remote, codec, engine>>

Parse ==
  /\ wire.pc = "formatted"
  /\ wire' = [wire EXCEPT !.pc = "parsed", !.parsed = parseMteRelayHeader(wire.header)]
  /\ UNCHANGED <<relay, remote, codec, engine>>

\* ---------------------------------------------------------------- codec
\* mte-fetch/request.ts and mte-fetch/response.ts.  Every value (a route, a header
\* value, a body, a ciphertext) is a sequence of words; the empty sequence is the
\* absent header, the null body and the empty string, which the code tells apart
\* nowhere (`if (value)`, `request.body ? body : null`).
HeaderNames == {"content-type", "x-a"}
RelayHeaders ==
  {"x-mte-relay", "MTE_ENCODED_HEADERS_HEADER", "CLIENT_ID_HEADER", "PAIR_ID_HEADER",
   "ENCODER_TYPE_HEADER"}
AllHeaders == HeaderNames \cup RelayHeaders
HeaderList == <<"x-a">>            \* options.encodeHeaders given as an array
Routes == {<<>>, <<"a">>, <<"a", "?", "a">>, <<"a", "?", "%2F">>}
Bodies == {<<>>, <<"b">>}
CodecClientId == <<"a">>
CodecPairId == <<"1">>

\* the first formatMteRelayHeader of format-mte-info-header.ts, which request.ts
\* calls with bodyEncodeType: type, the flags as true/false, the body type or false
formatMteRelayHeaderBodyType(options) ==
  join(<< <<options.type>>,
          IF options.urlIsEncoded THEN <<"true">> ELSE <<"false">>,
          IF options.headersAreEncoded THEN <<"true">> ELSE <<"false">>,
          IF options.bodyIsEncoded THEN <<options.bodyEncodeType>> ELSE <<"false">>,
          options.clientId,
          options.pairId >>)

\* the first parseMteRelayHeader of format-mte-info-header.ts
parseMteRelayHeaderBodyType(header) ==
  LET args == split(header)
  IN  [type |-> At(args, 0),
       urlIsEncoded |-> At(args, 1) = <<"true">>,
       headersAreEncoded |-> At(args, 2) = <<"true">>,
       bodyIsEncoded |-> At(args, 3) \in {<<"complete">>, <<"stream">>},
       bodyEncodeType |-> At(args, 3),
       clientId |-> At(args, 4),
       pairId |-> At(args, 5)]

\* encoder.encodeStrB64 / encoder.encode: the ciphertext of data under the session.
\* Base64 text holds +, / or = unless the bytes happen not to need them; the first
\* word of a Base64 ciphertext tells which (plain: none of them).
encodeItem(item, plain) ==
  IF item.output = "B64"
    THEN <<IF plain THEN "B64(" ELSE "B64+(">> \o item.data \o <<")">>
    ELSE <<"MTE(">> \o item.data \o <<")">>

\* encode of mte-helpers: one result per item, in the order of the items
encode(items, plain) == [i \in 1..Len(items) |-> encodeItem(items[i], plain)]

\* decoder.decodeStrB64 (a string) / decoder.decode (a Uint8Array) of the matching
\* session: the plaintext of a ciphertext of that form; anything else fails
Decodable(item) ==
  /\ Len(item.data) >= 2
  /\ item.data[Len(item.data)] = ")"
  /\ item.data[1] \in (IF item.bytes THEN {"MTE("} ELSE {"B64(", "B64+("})
decodeItem(item) == SubSeq(item.data, 2, Len(item.data) - 1)

\* decode of mte-helpers: ok is FALSE when it throws "Failed to decode."
decode(items) ==
  [ok |-> \A i \in 1..Len(items) : Decodable(items[i]),
   result |-> [i \in 1..Len(items) |-> decodeItem(items[i])]]

\* encodeURIComponent of a Base64 text: + becomes %2B
encodeURIComponent(str) ==
  [i \in 1..Len(str) |-> IF str[i] = "B64+(" THEN "B64%2B(" ELSE str[i]]

\* decodeURIComponent: every escape becomes the character it stands for
decodeURIComponent(str) ==
  [i \in 1..Len(str) |->
     IF str[i] = "B64%2B(" THEN "B64+(" ELSE IF str[i] = "%2F" THEN "/" ELSE str[i]]

\* the headers the encoder puts into headersToEncode: content-type whenever the
\* message has one, the listed ones or all of them as options.encodeHeaders says
headersToEncode(headers, encodeHeaders) ==
  [n \in HeaderNames |->
     IF n = "content-type" THEN headers[n]
     ELSE IF encodeHeaders = "list" THEN (IF InSeq(n, HeaderList) THEN headers[n] ELSE <<>>)
     ELSE IF encodeHeaders = "true" THEN headers[n]
     ELSE <<>>]
HasKeys(h) == \E n \in HeaderNames : h[n] # <<>>

\* JSON.stringify of a Record<string, string>: the names and values it holds
JSONstringify(h) ==
  <<"JSON">>
    \o (IF h["content-type"] # <<>> THEN <<"content-type">> \o h["content-type"] ELSE <<>>)
    \o (IF h["x-a"] # <<>> THEN <<"x-a">> \o h["x-a"] ELSE <<>>)

\* JSON.parse: throws a SyntaxError on what is not JSON text (undefined, the bytes
\* of a body)
IsJSON(str) == str # <<>> /\ str[1] = "JSON"
JSONparse(str) ==
  [n \in HeaderNames |->
     IF \E i \in 2..(Len(str) - 1) : i % 2 = 0 /\ str[i] = n
       THEN <<str[(CHOOSE i \in 2..(Len(str) - 1) : i % 2 = 0 /\ str[i] = n) + 1]>>
       ELSE <<>>]

\* a body read from result[i]: undefined makes a message without body
Body(x) == IF x = undefined THEN <<>> ELSE x
Threw(message) == [threw |-> TRUE, message |-> message]
Returned(message) == [threw |-> FALSE, message |-> message]

\* encodeRequest of request.ts
encodeRequest(request, options, plain) ==
  LET picked == headersToEncode(request.headers, options.encodeHeaders)
      encodeHeaders == options.encodeHeaders # "false" /\ HasKeys(picked)
      encodeBody == options.encodeBody /\ request.body # <<>>
      itemsToEncode ==
        (IF options.encodeUrl THEN <<[data |-> request.route, output |-> "B64"]>> ELSE <<>>)
          \o (IF HasKeys(picked)
                THEN <<[data |-> JSONstringify(picked), output |-> "B64"]>> ELSE <<>>)
          \o (IF encodeBody THEN <<[data |-> request.body, output |-> "Uint8Array"]>> ELSE <<>>)
      result == encode(itemsToEncode, plain)
      afterUrl == IF options.encodeUrl THEN Tail(result) ELSE result
      afterHeaders == IF encodeHeaders THEN Tail(afterUrl) ELSE afterUrl
  IN  [route |-> IF options.encodeUrl THEN encodeURIComponent(result[1]) ELSE request.route,
       headers |->
         [n \in AllHeaders |->
            IF n = "x-mte-relay"
              THEN formatMteRelayHeaderBodyType(
                     [type |-> options.type, urlIsEncoded |-> options.encodeUrl,
                      headersAreEncoded |-> encodeHeaders, bodyIsEncoded |-> encodeBody,
                      bodyEncodeType |-> "complete",
                      clientId |-> CodecClientId, pairId |-> CodecPairId])
            ELSE IF n = "CLIENT_ID_HEADER" THEN CodecClientId
            ELSE IF n = "PAIR_ID_HEADER" THEN CodecPairId
            ELSE IF n = "content-type" THEN <<"application/octet-stream">>
            ELSE IF n = "ENCODER_TYPE_HEADER" THEN <<options.type>>
            ELSE IF n = "MTE_ENCODED_HEADERS_HEADER" /\ encodeHeaders THEN afterUrl[1]
            ELSE request.headers[n]],
       body |-> IF encodeBody THEN afterHeaders[1] ELSE request.body]

\* decodeRequest of request.ts
decodeRequest(request) ==
  LET x == request.headers["x-mte-relay"]
      mteRelayHeader == parseMteRelayHeaderBodyType(x)
      header == request.headers["MTE_ENCODED_HEADERS_HEADER"]
      decodeBody == request.body # <<>> /\ mteRelayHeader.bodyIsEncoded
      itemsToDecode ==
        (IF mteRelayHeader.urlIsEncoded
           THEN <<[data |-> request.route, bytes |-> FALSE]>> ELSE <<>>)
          \o (IF header # <<>> THEN <<[data |-> header, bytes |-> FALSE]>> ELSE <<>>)
          \o (IF decodeBody THEN <<[data |-> request.body, bytes |-> TRUE]>> ELSE <<>>)
      d == decode(itemsToDecode)
      afterUrl == IF mteRelayHeader.urlIsEncoded THEN Tail(d.result) ELSE d.result
      headers == JSONparse(At(afterUrl, 0))
      afterHeaders ==
        IF mteRelayHeader.headersAreEncoded /\ afterUrl # <<>> THEN Tail(afterUrl) ELSE afterUrl
  IN  IF x = <<>> \/ ~d.ok THEN Threw(request)
      ELSE IF mteRelayHeader.headersAreEncoded /\ ~IsJSON(At(afterUrl, 0)) THEN Threw(request)
      ELSE Returned(
        [route |-> IF mteRelayHeader.urlIsEncoded
                     THEN decodeURIComponent(d.result[1]) ELSE request.route,
         headers |->
           [n \in AllHeaders |->
              IF n \in {"CLIENT_ID_HEADER", "PAIR_ID_HEADER", "ENCODER_TYPE_HEADER"} THEN <<>>
              ELSE IF mteRelayHeader.headersAreEncoded /\ n \in HeaderNames /\ headers[n] # <<>>
                THEN headers[n]
              ELSE request.headers[n]],
         body |-> IF mteRelayHeader.bodyIsEncoded
                     /\ mteRelayHeader.bodyEncodeType = <<"complete">>
                    THEN Body(At(afterHeaders, 0)) ELSE <<>>])

\* encodeResponse of response.ts
encodeResponse(response, options, plain) ==
  LET picked == headersToEncode(response.headers, options.encodeHeaders)
      encodeHeaders == options.encodeHeaders # "false" /\ HasKeys(picked)
      encodeBody == options.encodeBody /\ response.body # <<>>
      headerItem == <<[data |-> JSONstringify(picked), output |-> "B64"]>>
      itemsToEncode ==
        (IF options.encodeHeaders # "false" THEN headerItem ELSE <<>>)
          \o (IF HasKeys(picked) THEN headerItem ELSE <<>>)
          \o (IF encodeBody THEN <<[data |-> response.body, output |-> "Uint8Array"]>> ELSE <<>>)
      result == encode(itemsToEncode, plain)
  IN  [route |-> response.route,
       headers |->
         [n \in AllHeaders |->
            IF n = "content-type" THEN <<"application/octet-stream">>
            ELSE IF n = "x-mte-relay"
              THEN formatMteRelayHeader(
                     [type |-> options.type, urlIsEncoded |-> FALSE,
                      headersAreEncoded |-> encodeHeaders, bodyIsEncoded |-> encodeBody,
                      clientId |-> CodecClientId, pairId |-> CodecPairId])
            ELSE response.headers[n]],
       body |-> IF encodeBody THEN result[1] ELSE response.body]

\* decodeResponse of response.ts
decodeResponse(response) ==
  LET x == response.headers["x-mte-relay"]
      relayOptions == parseMteRelayHeader(x)
      header == response.headers["MTE_ENCODED_HEADERS_HEADER"]
      itemsToDecode ==
        (IF relayOptions.headersAreEncoded /\ header # <<>>
           THEN <<[data |-> header, bytes |-> FALSE]>> ELSE <<>>)
          \o (IF relayOptions.bodyIsEncoded /\ response.body # <<>>
                THEN <<[data |-> response.body, bytes |-> TRUE]>> ELSE <<>>)
      d == decode(itemsToDecode)
      headers == JSONparse(At(d.result, 0))
  IN  IF x = <<>> \/ ~d.ok THEN Threw(response)
      ELSE IF relayOptions.headersAreEncoded /\ ~IsJSON(At(d.result, 0)) THEN Threw(response)
      ELSE Returned(
        [route |-> response.route,
         headers |->
           [n \in AllHeaders |->
              IF ~relayOptions.headersAreEncoded THEN response.headers[n]
              ELSE IF n \in HeaderNames /\ headers[n] # <<>> THEN headers[n]
              ELSE IF n = "MTE_ENCODED_HEADERS_HEADER" THEN <<>>
              ELSE response.headers[n]],
         body |-> IF relayOptions.bodyIsEncoded THEN Body(At(d.result, 1)) ELSE response.body])

\* the messages and options a round trip starts from
Messages ==
  {[route |-> r,
    headers |-> [n \in AllHeaders |->
                   IF n = "content-type" THEN ct ELSE IF n = "x-a" THEN xa ELSE <<>>],
    body |-> b] :
     r \in Routes, ct \in {<<>>, <<"t">>}, xa \in {<<>>, <<"v">>}, b \in Bodies}
CodecOptions ==
  [type : EncDecType, encodeUrl : BOOLEAN, encodeHeaders : {"true", "false", "list"},
   encodeBody : BOOLEAN]

EncodeRequest ==
  /\ codec.pc = "plain" /\ codec.kind = "request"
  /\ codec' = [codec EXCEPT !.pc = "encoded",
                 !.encoded = encodeRequest(codec.message, codec.options, codec.plain)]
  /\ UNCHANGED <<relay, remote, wire, engine>>

DecodeRequest ==
  /\ codec.pc = "encoded" /\ codec.kind = "request"
  /\ LET d == decodeRequest(codec.encoded)
     IN  codec' = [codec EXCEPT !.pc = IF d.threw THEN "threw" ELSE "decoded",
                                !.decoded = d.message]
  /\ UNCHANGED <<relay, remote, wire, engine>>

EncodeResponse ==
  /\ codec.pc = "plain" /\ codec.kind = "response"
  /\ codec' = [codec EXCEPT !.pc = "encoded",
                 !.encoded = encodeResponse(codec.message, codec.options, codec.plain)]
  /\ UNCHANGED <<relay, remote, wire, engine>>

DecodeResponse ==
  /\ codec.pc = "encoded" /\ codec.kind = "response"
  /\ LET d == decodeResponse(codec.encoded)
     IN  codec' = [codec EXCEPT !.pc = IF d.threw THEN "threw" ELSE "decoded",
                                !.decoded = d.message]
  /\ UNCHANGED <<relay, remote, wire, engine>>

\* ---------------------------------------------------------------- encodeRequest of the client
\* The encodeRequest that sendMteRequest calls (request.ts, the function without
\* decodeRequest beside it).  A request carries, besides its route, pad further
\* characters of route that the model does not spell out.
UrlOrigin == <<"https:", "/", "/", "o1">>
Pads == {0, 2048}

\* the headers the client's encodeRequest puts into headersToEncode
clientHeadersToEncode(headers, encodeHeaders) ==
  [n \in HeaderNames |->
     IF encodeHeaders = "list" /\ InSeq(n, HeaderList) THEN headers[n]
     ELSE IF encodeHeaders = "true" THEN headers[n]
     ELSE IF n = "content-type" THEN headers[n]
     ELSE <<>>]

\* the headers it deletes from newRequestHeaders: those moved by the two loops
clientHeadersDeleted(headers, encodeHeaders) ==
  {n \in HeaderNames :
     /\ headers[n] # <<>>
     /\ \/ encodeHeaders = "true"
        \/ encodeHeaders = "list" /\ InSeq(n, HeaderList)}

\* itemsToEncode with the body pushed whether it is empty or not
clientItemsToEncodeBodyAlways(request, options) ==
  LET picked == clientHeadersToEncode(request.headers, options.encodeHeaders) IN
  (IF options.encodeUrl THEN <<[data |-> request.route, output |-> "B64"]>> ELSE <<>>)
    \o (IF HasKeys(picked) THEN <<[data |-> JSONstringify(picked), output |-> "B64"]>> ELSE <<>>)
    \o <<[data |-> request.body, output |-> "Uint8Array"]>>

\* itemsToEncode at the call of encode
clientItemsToEncode(request, options) ==
  LET picked == clientHeadersToEncode(request.headers, options.encodeHeaders) IN
  (IF options.encodeUrl THEN <<[data |-> request.route, output |-> "B64"]>> ELSE <<>>)
    \o (IF HasKeys(picked) THEN <<[data |-> JSONstringify(picked), output |-> "B64"]>> ELSE <<>>)
    \o (IF request.body # <<>>
          THEN <<[data |-> request.body, output |-> "Uint8Array"]>> ELSE <<>>)

\* encodeRequest that leaves the moved headers in newRequestHeaders
encodeRequestClientKept(request, options, plain) ==
  LET picked == clientHeadersToEncode(request.headers, options.encodeHeaders)
      encodeHeaders == HasKeys(picked)
      bodyIsEncoded == request.body # <<>>
      result == encode(clientItemsToEncode(request, options), plain)
      afterUrl == IF options.encodeUrl THEN Tail(result) ELSE result
      afterHeaders == IF encodeHeaders THEN Tail(afterUrl) ELSE afterUrl
  IN  [route |-> IF options.encodeUrl THEN encodeURIComponent(result[1]) ELSE request.route,
       pad |-> request.pad,
       headers |->
         [n \in AllHeaders |->
            IF n = "x-mte-relay"
              THEN formatMteRelayHeader(
                     [type |-> options.type, urlIsEncoded |-> options.encodeUrl,
                      headersAreEncoded |-> encodeHeaders, bodyIsEncoded |-> bodyIsEncoded,
                      clientId |-> CodecClientId, pairId |-> CodecPairId])
            ELSE IF n = "content-type" THEN <<"application/octet-stream">>
            ELSE IF n = "MTE_ENCODED_HEADERS_HEADER" /\ encodeHeaders THEN afterUrl[1]
            ELSE request.headers[n]],
       body |-> IF bodyIsEncoded THEN afterHeaders[1] ELSE request.body]

\* encodeRequest (request.ts, the first one)
encodeRequestClient(request, options, plain) ==
  LET picked == clientHeadersToEncode(request.headers, options.encodeHeaders)
      deleted == clientHeadersDeleted(request.headers, options.encodeHeaders)
      encodeHeaders == HasKeys(picked)
      bodyIsEncoded == request.body # <<>>
      result == encode(clientItemsToEncode(request, options), plain)
      afterUrl == IF options.encodeUrl THEN Tail(result) ELSE result
      afterHeaders == IF encodeHeaders THEN Tail(afterUrl) ELSE afterUrl
  IN  [route |-> IF options.encodeUrl THEN encodeURIComponent(result[1]) ELSE request.route,
       pad |-> request.pad,
       headers |->
         [n \in AllHeaders |->
            IF n = "x-mte-relay"
              THEN formatMteRelayHeader(
                     [type |-> options.type, urlIsEncoded |-> options.encodeUrl,
                      headersAreEncoded |-> encodeHeaders, bodyIsEncoded |-> bodyIsEncoded,
                      clientId |-> CodecClientId, pairId |-> CodecPairId])
            ELSE IF n = "content-type" THEN <<"application/octet-stream">>
            ELSE IF n = "MTE_ENCODED_HEADERS_HEADER" /\ encodeHeaders THEN afterUrl[1]
            ELSE IF n \in deleted THEN <<>>
            ELSE request.headers[n]],
       body |-> IF bodyIsEncoded THEN afterHeaders[1] ELSE request.body]

\* the length of request.url: the origin, a slash, the route; a ciphertext in
\* Base64 is no shorter than its plaintext, so for an encoded route this is a
\* lower bound
urlLength(request) == Len(UrlOrigin) + 1 + Len(request.route) + request.pad

ClientMessages ==
  {[route |-> m.route, pad |-> k, headers |-> m.headers, body |-> m.body] :
     m \in Messages, k \in Pads}
ClientOptions ==
  [type : EncDecType, encodeUrl : BOOLEAN, encodeHeaders : {"true", "false", "list"}]

\* const encodedRequest = await encodeRequest(_request, {...})
ClientEncode ==
  /\ codec.pc = "plain"
  /\ codec' = [codec EXCEPT
                 !.pc = "encoded",
                 !.encodeCalls = @ + 1,
                 !.items = clientItemsToEncode(codec.message, codec.options),
                 !.encoded = encodeRequestClient(codec.message, codec.options, codec.plain)]
  /\ UNCHANGED <<relay, remote, wire, engine>>

\* let response = await fetch(encodedRequest)
ClientFetch ==
  /\ codec.pc = "encoded"
  /\ codec' = [codec EXCEPT !.pc = "sent"]
  /\ UNCHANGED <<relay, remote, wire, engine>>

\* ---------------------------------------------------------------- responses on the wire
\* What decodeResponse is handed: a response whose x-mte-relay header carries the
\* flags, with the header bag (the ciphertext of the JSON of some headers) present
\* or not, a body that is ciphertext when the body flag is set, and plain headers.
HeaderBags == [HeaderNames -> {<<>>, <<"w">>}]
WireParts ==
  [type : EncDecType, headersAreEncoded : BOOLEAN, bodyIsEncoded : BOOLEAN,
   bagPresent : BOOLEAN, bag : HeaderBags, body : Bodies,
   contentType : {<<>>, <<"t">>}, xa : {<<>>, <<"v">>}, plain : BOOLEAN]

wireResponse(p) ==
  [route |-> <<>>,
   headers |->
     [n \in AllHeaders |->
        IF n = "x-mte-relay"
          THEN formatMteRelayHeader(
                 [type |-> p.type, urlIsEncoded |-> FALSE,
                  headersAreEncoded |-> p.headersAreEncoded,
                  bodyIsEncoded |-> p.bodyIsEncoded,
                  clientId |-> CodecClientId, pairId |-> CodecPairId])
        ELSE IF n = "MTE_ENCODED_HEADERS_HEADER"
          THEN (IF p.bagPresent
                  THEN encodeItem([data |-> JSONstringify(p.bag), output |-> "B64"], p.plain)
                  ELSE <<>>)
        ELSE IF n = "content-type" THEN p.contentType
        ELSE IF n = "x-a" THEN p.xa
        ELSE <<>>],
   body |-> IF p.bodyIsEncoded /\ p.body # <<>>
              THEN encodeItem([data |-> p.body, output |-> "Uint8Array"], p.plain)
              ELSE p.body]

\* the client receives the response and runs decodeResponse on it
WireDecode ==
  /\ codec.pc = "received" /\ codec.kind = "wire"
  /\ LET d == decodeResponse(codec.encoded)
     IN  codec' = [codec EXCEPT !.pc = IF d.threw THEN "threw" ELSE "decoded",
                                !.decoded = d.message]
  /\ UNCHANGED <<relay, remote, wire, engine>>

\* the decoded response is handed to the caller of mteFetch
WireReturn ==
  /\ codec.pc = "decoded" /\ codec.kind = "wire"
  /\ codec' = [codec EXCEPT !.pc = "returned"]
  /\ UNCHANGED <<relay, remote, wire, engine>>

\* ---------------------------------------------------------------- pools, encode and decode
\* encoder-decoder-pools.ts and the encode/decode of mte-helpers.  A handle is the
\* session state it holds; a session state is a number, the successor of a state is
\* the state after one more item went through the engine.
mtePoolSize == 3
mkePoolSize == 6
PoolSizeOptions == {0, 1}          \* options.mtePoolSize, options.mkePoolSize: 0 is not given
NumEngineCalls == 3
EngineCalls == 1..NumEngineCalls
MaxItems == 1
Blank == 0                         \* what fromdefault makes and uninstantiate leaves
NoState == 0                       \* the cache has nothing under the key
FirstState == 1                    \* the state of a handle after instantiate
PoolNames == {"mteEncoderPool", "mteDecoderPool", "mkeEncoderPool", "mkeDecoderPool"}
encoderPoolOf(type) == IF type = "MTE" THEN "mteEncoderPool" ELSE "mkeEncoderPool"
decoderPoolOf(type) == IF type = "MTE" THEN "mteDecoderPool" ELSE "mkeDecoderPool"
poolOf(kind, type) == IF kind = "encode" THEN encoderPoolOf(type) ELSE decoderPoolOf(type)
poolSizeOf(e, q) ==
  IF q \in {"mteEncoderPool", "mteDecoderPool"} THEN e.mtePoolSize ELSE e.mkePoolSize

\* the state key of a call: encoder.<origin>.<pairId> or decoder.<origin>.<pairId>
StateKeys == {"encoder.o1.p1", "decoder.o1.p1"}
keyOf(kind) == IF kind = "encode" THEN "encoder.o1.p1" ELSE "decoder.o1.p1"

\* fillEncDecPools: pushes as many fresh handles as the size says
fillEncDecPools(e, optMte, optMke) ==
  LET mte == IF optMte # 0 THEN optMte ELSE e.mtePoolSize
      mke == IF optMke # 0 THEN optMke ELSE e.mkePoolSize
  IN  [e EXCEPT !.mtePoolSize = mte, !.mkePoolSize = mke,
         !.pools = [q \in PoolNames |->
                      e.pools[q] \o [i \in 1..(IF q \in {"mteEncoderPool", "mteDecoderPool"}
                                                 THEN mte ELSE mke) |-> Blank]]]

\* getEncoderFromPool / getDecoderFromPool: pop, or fromdefault when the pool is empty
getFromPool(pool) ==
  IF pool = <<>> THEN [handle |-> Blank, pool |-> pool]
  ELSE [handle |-> pool[Len(pool)], pool |-> SubSeq(pool, 1, Len(pool) - 1)]

uninstantiate(handle) == Blank

\* a return that pushes whatever the pool holds
returnToPoolAlways(pool, size, handle) ==
  [pool |-> Append(pool, uninstantiate(handle)), destructed |-> 0]

\* returnEncoderToPool / returnDecoderToPool, for the pool the handle belongs to
returnToPool(pool, size, handle) ==
  IF Len(pool) < size
    THEN [pool |-> Append(pool, uninstantiate(handle)), destructed |-> 0]
    ELSE [pool |-> pool, destructed |-> 1]

\* getEncoderFromPool ... returnEncoderToPool with nothing awaited between
borrow(e, q) ==
  LET t == getFromPool(e.pools[q])
      r == returnToPool(t.pool, poolSizeOf(e, q), t.handle)
  IN  [e EXCEPT !.pools[q] = r.pool, !.destructed = @ + r.destructed]

\* the state of the engine after items more items
successor(state, items) == state + items

IdleEngineCall ==
  [pc |-> "idle", kind |-> "encode", type |-> "MTE", items |-> 0, empty |-> 0,
   read |-> NoState, wrote |-> NoState, held |-> FALSE, handle |-> Blank]
\* a call that returned or threw: its locals are gone
SettledEngineCall(pc) == [IdleEngineCall EXCEPT !.pc = pc]
NoEngine == [pc |-> "none"]
LoadedEngine ==
  [pc |-> "loaded", wasm |-> FALSE, mtePoolSize |-> mtePoolSize, mkePoolSize |-> mkePoolSize,
   pools |-> [q \in PoolNames |-> <<>>], store |-> [k \in StateKeys |-> NoState],
   calls |-> [o \in EngineCalls |-> IdleEngineCall], destructed |-> 0]

\* instantiateMteWasm: once; fills the pools, then borrows an MKE encoder to read
\* finishEncryptBytes
InstantiateMteWasm(optMte, optMke) ==
  /\ engine.pc = "loaded" /\ ~engine.wasm
  /\ engine' = borrow([fillEncDecPools(engine, optMte, optMke) EXCEPT !.wasm = TRUE],
                      "mkeEncoderPool")
  /\ UNCHANGED <<relay, remote, wire, codec>>

\* instantiateEncoder / instantiateDecoder for a new pair id: an MTE handle is
\* taken, instantiated, returned, and its state saved under the key
Instantiate(kind) ==
  /\ engine.pc = "loaded" /\ engine.wasm
  /\ engine.store[keyOf(kind)] = NoState
  /\ engine' = [borrow(engine, poolOf(kind, "MTE")) EXCEPT !.store[keyOf(kind)] = FirstState]
  /\ UNCHANGED <<relay, remote, wire, codec>>

\* encode or decode is called: getEncDecState reads the cache
EngineCall(o, kind, type, items, empty) ==
  /\ engine.pc = "loaded" /\ engine.wasm
  /\ engine.calls[o].pc = "idle"
  /\ o > 1 => engine.calls[o - 1].pc # "idle"
  /\ empty <= items
  /\ empty > 0 => kind = "decode" /\ type = "MKE"
  /\ engine' = [engine EXCEPT !.calls[o] =
                  [IdleEngineCall EXCEPT !.pc = "got", !.kind = kind, !.type = type,
                     !.items = items, !.empty = empty,
                     !.read = engine.store[keyOf(kind)]]]
  /\ UNCHANGED <<relay, remote, wire, codec>>

\* the items that go through the engine: decode skips, under MKE, those that are
\* only the finishing bytes
processed(c) == IF c.kind = "decode" THEN c.items - c.empty ELSE c.items

\* what the engine makes of a call: it takes the items, or the restored decoder asks
\* for a reseed, or an item is refused
EngineOutcomes == {"ok", "reseed", "refused"}

\* a decode that throws and saves the decoder's state all the same
catchDecodeSaving(e, o, back) ==
  [e EXCEPT !.pools[decoderPoolOf(e.calls[o].type)] = back.pool,
            !.destructed = @ + back.destructed,
            !.store[keyOf("decode")] = successor(e.calls[o].read, 1),
            !.calls[o] = SettledEngineCall("failed")]

\* the catch block of decode: the decoder goes back to its pool and the call throws
\* Failed to decode.
catchDecode(e, o, back) ==
  [e EXCEPT !.pools[decoderPoolOf(e.calls[o].type)] = back.pool,
            !.destructed = @ + back.destructed,
            !.calls[o] = SettledEngineCall("failed")]

\* the call goes on after await getEncDecState, up to its await setEncDecState (whose
\* setCacheItem writes at once) or to its throw
EngineRun(o, outcome) ==
  LET c == engine.calls[o]
      q == poolOf(c.kind, c.type)
      t == getFromPool(engine.pools[q])
      back == returnToPool(t.pool, poolSizeOf(engine, q), c.read)
      next == successor(c.read, processed(c))
  IN  /\ engine.pc = "loaded"
      /\ c.pc = "got"
      /\ processed(c) = 0 => outcome # "refused"
      /\ (c.kind = "encode" \/ c.read = NoState) => outcome # "reseed"
      /\ engine' =
           IF c.read = NoState
             THEN [engine EXCEPT !.calls[o] = SettledEngineCall("failed")]
           ELSE IF c.kind = "encode" /\ c.type = "MKE"
             THEN [engine EXCEPT !.pools[q] = t.pool, !.store[keyOf(c.kind)] = next,
                     !.calls[o] = [c EXCEPT !.pc = "set", !.wrote = next, !.held = TRUE,
                                     !.handle = c.read]]
           ELSE IF outcome = "reseed"
             THEN [engine EXCEPT !.pools[q] = t.pool,
                     !.calls[o] = SettledEngineCall("failed")]
           ELSE IF outcome = "refused" /\ c.kind = "decode"
             THEN catchDecode(engine, o, back)
           ELSE IF outcome = "refused"
             THEN [engine EXCEPT !.pools[q] = back.pool, !.destructed = @ + back.destructed,
                     !.calls[o] = SettledEngineCall("failed")]
           ELSE IF c.kind = "encode"
             THEN [engine EXCEPT !.pools[q] = t.pool, !.store[keyOf(c.kind)] = next,
                     !.calls[o] = [c EXCEPT !.pc = "set", !.wrote = next, !.held = TRUE,
                                     !.handle = next]]
           ELSE [engine EXCEPT !.pools[q] = back.pool, !.destructed = @ + back.destructed,
                   !.store[keyOf(c.kind)] = next,
                   !.calls[o] = [c EXCEPT !.pc = "set", !.wrote = next]]
      /\ UNCHANGED <<relay, remote, wire, codec>>

\* the call goes on after await setEncDecState: an MKE encode encodes its items now,
\* every encode returns its encoder
EngineFinish(o, ok) ==
  LET c == engine.calls[o]
      q == poolOf(c.kind, c.type)
      back == returnToPool(engine.pools[q], poolSizeOf(engine, q), c.handle)
  IN  /\ engine.pc = "loaded"
      /\ c.pc = "set"
      /\ ~(c.kind = "encode" /\ c.type = "MKE" /\ c.items > 0) => ok
      /\ engine' =
           IF c.kind = "encode"
             THEN [engine EXCEPT !.pools[q] = back.pool, !.destructed = @ + back.destructed,
                     !.calls[o] = SettledEngineCall(IF ok THEN "done" ELSE "failed")]
             ELSE [engine EXCEPT !.calls[o] = SettledEngineCall("done")]
      /\ UNCHANGED <<relay, remote, wire, codec>>

\* ---------------------------------------------------------------- drbgReseedCheck
\* The reseed counter and the reseed interval are whole numbers of up to about twenty
\* digits; a number is written here as a leading digit m followed by e zeros.
MaxExp == 19
DigitsKept == 15
Numbers == [m : 1..9, e : 0..MaxExp]
digits(n) == 1 + n.e

AtMost(a, b) == a.e < b.e \/ (a.e = b.e /\ a.m <= b.m)

\* Number(String(n).substring(0, 15)): the number its first fifteen digits spell
substring15(n) ==
  IF digits(n) <= DigitsKept THEN n ELSE [m |-> n.m, e |-> DigitsKept - 1]

RECURSIVE Pow10(_)
Pow10(k) == IF k = 0 THEN 1 ELSE 10 * Pow10(k - 1)

\* a / b > 0.9, that is 10 * a > 9 * b; two digits of difference in length decide it
\* whatever the leading digits
aboveNineTenths(a, b) ==
  IF a.e - b.e >= 2 THEN TRUE
  ELSE IF b.e - a.e >= 2 THEN FALSE
  ELSE LET k == IF a.e < b.e THEN a.e ELSE b.e
       IN  10 * a.m * Pow10(a.e - k) > 9 * b.m * Pow10(b.e - k)

\* a check that compares the numbers as they are
drbgReseedCheckExact(counter, interval) == aboveNineTenths(counter, interval)

\* drbgReseedCheck: reseedIsRequired
drbgReseedCheck(counter, interval) ==
  aboveNineTenths(substring15(counter), substring15(interval))

\* decode after restoreMteState: drbgReseedCheck(decoder)
ReseedCheck ==
  /\ engine.pc = "restored"
  /\ engine' = [engine EXCEPT
                  !.pc = IF drbgReseedCheck(engine.counter, engine.interval)
                           THEN "threw" ELSE "checked",
                  !.status = IF drbgReseedCheck(engine.counter, engine.interval)
                               THEN DrbgReseedRequired ELSE 0]
  /\ UNCHANGED <<relay, remote, wire, codec>>

\* decode goes on to its items
ReseedDecodeItems ==
  /\ engine.pc = "checked"
  /\ engine' = [engine EXCEPT !.pc = "decoded", !.decoded = engine.items]
  /\ UNCHANGED <<relay, remote, wire, codec>>

\* ---------------------------------------------------------------- mkeEncode, mkeDecode
\* src/mte/index.ts with the in-memory store of memory-cache.ts.  A state id is
\* <role>.<serverId>.<pairId>; a serverId is one or more words.
MAX_POOL_SIZE == 5
NumLegacyCalls == 3
LegacyCalls == 1..NumLegacyCalls
ServerIds == {<<"s1">>, <<"decoder", "s1">>}
Roles == {"encoder", "decoder"}
stateId(role, serverId) == <<role>> \o serverId \o <<"p1">>
roleOf(kind) == IF kind = "encode" THEN "encoder" ELSE "decoder"

\* id.includes("decoder")
includesDecoder(id) == \E i \in 1..Len(id) : id[i] = "decoder"

\* takeItem of memory-cache.ts: the item, and the store after it
takeItem(store, role, serverId) ==
  [item |-> store[role],
   store |-> IF ~includesDecoder(stateId(role, serverId))
               THEN [store EXCEPT ![role] = NoState] ELSE store]

\* encoderPool.pop() / decoderPool.pop(): the length of the pool after it
popLength(n) == IF n > 0 THEN n - 1 ELSE 0
\* returnEncoderToPool / returnDecoderToPool: the length after it
pushLength(n) == IF n < MAX_POOL_SIZE THEN n + 1 ELSE n

IdleLegacyCall == [pc |-> "idle", kind |-> "encode", currentState |-> NoState]

\* mkeEncode / mkeDecode is called: up to `await cache.takeState(options.id)`,
\* whose takeItem reads, and deletes, at once
LegacyCall(o, kind) ==
  LET t == takeItem(engine.store, roleOf(kind), engine.serverId)
  IN  /\ engine.pc = "legacy"
      /\ engine.calls[o].pc = "idle"
      /\ o > 1 => engine.calls[o - 1].pc # "idle"
      /\ engine' = [engine EXCEPT
                      !.store = t.store,
                      !.encoderPool = IF kind = "encode" THEN popLength(@) ELSE @,
                      !.calls[o] = [pc |-> "took", kind |-> kind, currentState |-> t.item]]
      /\ UNCHANGED <<relay, remote, wire, codec>>

\* the call goes on after await cache.takeState, up to await cache.saveState (whose
\* setItem writes at once) or to its throw; ok is whether the decoder took the payload
LegacyRun(o, ok) ==
  LET c == engine.calls[o]
      next == successor(c.currentState, 1)
  IN  /\ engine.pc = "legacy"
      /\ c.pc = "took"
      /\ (c.kind = "encode" \/ c.currentState = NoState) => ok
      /\ engine' =
           IF c.currentState = NoState
             THEN [engine EXCEPT
                     !.encoderPool = IF c.kind = "encode" THEN pushLength(@) ELSE @,
                     !.calls[o] = [IdleLegacyCall EXCEPT !.pc = "State not found."]]
           ELSE IF c.kind = "encode"
             THEN [engine EXCEPT !.store["encoder"] = next, !.calls[o].pc = "saved"]
           ELSE IF ~ok
             THEN [engine EXCEPT !.decoderPool = popLength(@),
                     !.calls[o] = [IdleLegacyCall EXCEPT !.pc = "Failed to decode."]]
           ELSE [engine EXCEPT !.store["decoder"] = next, !.calls[o].pc = "saved"]
      /\ UNCHANGED <<relay, remote, wire, codec>>

\* the call goes on after await cache.saveState: mkeEncode encodes the payload and
\* returns its encoder, unless the encoding throws
LegacyFinish(o, ok) ==
  LET c == engine.calls[o]
  IN  /\ engine.pc = "legacy"
      /\ c.pc = "saved"
      /\ c.kind = "decode" => ok
      /\ engine' =
           IF ok
             THEN [engine EXCEPT
                     !.encoderPool = IF c.kind = "encode" THEN pushLength(@) ELSE @,
                     !.calls[o] = [IdleLegacyCall EXCEPT !.pc = "done"]]
             ELSE [engine EXCEPT
                     !.calls[o] = [IdleLegacyCall EXCEPT !.pc = "Failed to encode."]]
      /\ UNCHANGED <<relay, remote, wire, codec>>

\* ---------------------------------------------------------------- cache keys
\* The caches of the relay are one Map with string keys: origin-status:<origin>,
\* pairids:<origin>, clientid:<origin>, state:encoder.<origin>.<pairId> and
\* state:decoder.<origin>.<pairId>.  A string is written here as the words between
\* its dots, so that two keys are the same string exactly when they are the same
\* sequence.  The origins are https://a and https://a.b; generateRandomId makes ids
\* without a dot, a server may answer any string as a pair id.
Hosts == {<<"a">>, <<"a", "b">>}
GeneratedIds == {<<"p1">>, <<"p2">>}
MaxPairings == 2
AnsweredIds == GeneratedIds \cup {<<"b", "p1">>}
MaxSessionState == 2
Absent == <<>>

statusKey(origin) == <<"origin-status:">> \o origin
queueKey(origin) == <<"pairids:">> \o origin
clientIdKey(origin) == <<"clientid:">> \o origin
\* `${role}.${origin}.${pairId}` under the prefix state:
stateKeyOf(role, origin, pairId) == <<"state:", role>> \o origin \o pairId

CacheKeys ==
  {statusKey(o) : o \in Hosts} \cup {queueKey(o) : o \in Hosts}
    \cup {clientIdKey(o) : o \in Hosts}
    \cup {stateKeyOf(r, o, p) : r \in Roles, o \in Hosts, p \in AnsweredIds}

getCacheItem(e, key) == e.cache[key]
setCacheItem(e, key, value) == [e EXCEPT !.cache[key] = value]
deleteCacheItem(e, key) == [e EXCEPT !.cache[key] = Absent]

\* an operation done for an origin, with the pair id it used
Done(e, origin, pairId) == [e EXCEPT !.origin = origin, !.pairId = pairId]

\* getOriginStatus
CacheGetOriginStatus(o) ==
  /\ engine.pc = "cache"
  /\ engine' = Done(IF getCacheItem(engine, statusKey(o)) # Absent THEN engine
                    ELSE setCacheItem(engine, statusKey(o), <<"pending">>), o, Absent)
  /\ UNCHANGED <<relay, remote, wire, codec>>

\* setOriginStatus
CacheSetOriginStatus(o, status) ==
  /\ engine.pc = "cache"
  /\ engine' = Done(setCacheItem(engine, statusKey(o), <<status>>), o, Absent)
  /\ UNCHANGED <<relay, remote, wire, codec>>

\* setClientId
CacheSetClientId(o, clientId) ==
  /\ engine.pc = "cache"
  /\ engine' = Done([setCacheItem(engine, clientIdKey(o), <<clientId>>) EXCEPT
                       !.localStorage[clientIdKey(o)] = <<clientId>>], o, Absent)
  /\ UNCHANGED <<relay, remote, wire, codec>>

\* deleteClientId
CacheDeleteClientId(o) ==
  /\ engine.pc = "cache"
  /\ engine' = Done([deleteCacheItem(engine, clientIdKey(o)) EXCEPT
                       !.localStorage[clientIdKey(o)] = Absent], o, Absent)
  /\ UNCHANGED <<relay, remote, wire, codec>>

\* one pass of the loop of pairWithOrigin: instantiateEncoder and instantiateDecoder
\* with pairResponse.pairId, the pair id of the server's answer
CachePair(o, pairId) ==
  LET e1 == setCacheItem(engine, stateKeyOf("encoder", o, pairId), <<1>>)
      e2 == setCacheItem(e1, queueKey(o), Append(getCacheItem(e1, queueKey(o)), pairId))
      e3 == setCacheItem(e2, stateKeyOf("decoder", o, pairId), <<1>>)
  IN  /\ engine.pc = "cache"
      /\ engine.made < MaxPairings
      /\ getCacheItem(engine, clientIdKey(o)) # Absent
      /\ engine' = Done([e3 EXCEPT !.made = @ + 1], o, pairId)
      /\ UNCHANGED <<relay, remote, wire, codec>>

\* getNextPairIdFromQueue
CacheAcquire(o) ==
  LET q == getCacheItem(engine, queueKey(o))
  IN  /\ engine.pc = "cache"
      /\ q # Absent
      /\ engine' = Done(setCacheItem(engine, queueKey(o), Append(Tail(q), Head(q))),
                        o, Head(q))
      /\ UNCHANGED <<relay, remote, wire, codec>>

\* deletePairIdFromQueue
CacheEvict(o, k) ==
  LET q == getCacheItem(engine, queueKey(o))
  IN  /\ engine.pc = "cache"
      /\ k \in 1..Len(q)
      /\ engine' = Done(setCacheItem(engine, queueKey(o),
                                     SubSeq(q, 1, k - 1) \o SubSeq(q, k + 1, Len(q))),
                        o, q[k])
      /\ UNCHANGED <<relay, remote, wire, codec>>

\* encode for a pair of the origin's queue, or decode with the pair id of the response's
\* header: the state under the key is replaced by its successor
CacheUse(role, o, pairId) ==
  LET key == stateKeyOf(role, o, pairId)
      s == getCacheItem(engine, key)
  IN  /\ engine.pc = "cache"
      /\ role = "encoder" => InSeq(pairId, getCacheItem(engine, queueKey(o)))
      /\ s # Absent /\ s[1] < MaxSessionState
      /\ engine' = Done(setCacheItem(engine, key, <<s[1] + 1>>), o, pairId)
      /\ UNCHANGED <<relay, remote, wire, codec>>

\* ---------------------------------------------------------------- actions
Budget(f) == faults + f <= MaxFaults
Spend(f) == faults' = faults + f

\* mteFetch(url): the application issues call c to some origin
Start(c) ==
  /\ calls[c].pc = "idle"
  /\ \A d \in Calls : d < c => calls[d].pc # "idle"   \* calls are numbered as issued
  /\ \E o \in Origins :
       Commit(sendMteRequest(SetCall(World, c, [calls[c] EXCEPT !.origin = o]), c,
                             [revalidateServer |-> FALSE, isLastAttempt |-> FALSE]))
  /\ UNCHANGED <<encDecState, faults, rec, units>>

\* after `await getOriginStatus`: start the probe, start polling, or acquire a pair
AfterStatus(c) ==
  LET cs == calls[c] IN
  /\ cs.pc = "status"
  /\ IF cs.status = "validate" \/ cs.revalidateServer
       \* validateRemoteIsMteRelay up to its fetch (HEAD /api/mte-relay)
       THEN Commit(SetCall(getClientIdWorld(World, cs.origin), c, [cs EXCEPT !.pc = "probe"]))
     ELSE IF cs.status = "pending"
       THEN Commit(SetCall(World, c, [cs EXCEPT !.pc = "sleep", !.i = 1]))
     ELSE Commit(AcquirePair(World, c))
  /\ UNCHANGED <<encDecState, faults, rec, units>>

\* the probe is answered: the rest of validateRemoteIsMteRelay and its catch
ProbeResponse(c) ==
  LET cs == calls[c]
      o == cs.origin
  IN
  /\ cs.pc = "probe"
  /\ \/ \* fetch rejects, !response.ok, no header, no clientId in the header
        /\ Budget(1) /\ Spend(1)
        /\ \E m \in {"fetch failed", "Response not ok.", "Response missing header.",
                     "Response missing ClientId."} :
             Commit(Catch(setOriginStatus(World, o, "invalid"), c,
                          Error("Origin is not an MTE Relay server.")))
     \/ \* MteRelayError.isMteErrorStatus(response.status)
        /\ Budget(1) /\ Spend(1)
        /\ \E s \in ServerStatuses : Commit(Catch(World, c, MteRelayError(s)))
     \/ \* setClientId, setOriginStatus(origin, "pending"), return "pending"
        \E a \in AnswerClientIds(World, o, ClientIds) :
          /\ Budget(a.fault) /\ Spend(a.fault)
          /\ Commit(SetCall(setOriginStatus(setClientId(World, o, a.cid), o, "pending"), c,
                            [cs EXCEPT !.pc = "validated", !.status = "pending",
                                       !.probed = TRUE]))
  /\ UNCHANGED <<encDecState, rec, units>>

\* pairWithOrigin(requestOrigin) up to its fetch (POST /api/mte-pair)
StartPairing(c) ==
  LET cs == calls[c]
      o == cs.origin
      t == pairWithOriginTask(World, o, 0)
      w == SetCall(pairWithOriginWorld(World, o, 0), c, [cs EXCEPT !.pc = "pairing", !.pair = t])
  IN
  /\ cs.pc = "validated"
  /\ IF t.pc = "failed"
       THEN Commit(Catch(setOriginStatus(w, o, "invalid"), c, t.err))
       ELSE Commit(w)
  /\ UNCHANGED <<encDecState, faults, rec, units>>

\* one continuation of the call's pairWithOrigin; its .catch; after it
\* setOriginStatus(requestOrigin, "paired") and the acquisition of a pair
PairingStep(c) ==
  LET cs == calls[c]
      o == cs.origin
  IN
  /\ cs.pc = "pairing"
  /\ \E r \in PairNext(cs.pair, World, encDecState) :
       /\ Budget(r.fault) /\ Spend(r.fault)
       /\ encDecState' = r.sc
       /\ LET w == SetCall(r.w, c, [cs EXCEPT !.pair = r.t]) IN
          IF r.t.pc = "failed"
            THEN Commit(Catch(setOriginStatus(w, o, "invalid"), c, r.t.err))
          ELSE IF r.t.pc = "ok"
            THEN Commit(AcquirePair(
                   SetCall(setOriginStatus(w, o, "paired"), c,
                           [w.calls[c] EXCEPT !.status = "paired"]), c))
          ELSE Commit(w)
  /\ UNCHANGED <<rec, units>>

\* a polling loop without end
loopEndsNever(i) == FALSE

\* a loop index that goes back and forth
nextPassReset(i) == IF i = 1 THEN 2 ELSE 1

\* ++i
nextPass(i) == i + 1

\* for (let i = 1; i < 20; ++i): the pass with index i is the last one
loopEnds(i) == i + 1 > PollLimit

\* await sleep(i * 100); originStatus = await getOriginStatus(requestOrigin)
Poll(c) ==
  LET cs == calls[c]
      o == cs.origin
      v == getOriginStatusValue(World, o)
      w == SetCall(getOriginStatusWorld(World, o), c, [cs EXCEPT !.status = v])
  IN
  /\ cs.pc = "sleep"
  /\ IF v = "paired" THEN Commit(AcquirePair(w, c))
     ELSE IF v = "invalid" THEN Commit(Catch(w, c, Error("Origin status is invalid.")))
     ELSE IF loopEnds(cs.i) THEN Commit(Catch(w, c, Error("Origin is not paired.")))
     ELSE Commit(SetCall(w, c, [w.calls[c] EXCEPT !.i = nextPass(cs.i)]))
  /\ UNCHANGED <<encDecState, faults, rec, units>>

\* encodeRequest, then fetch(encodedRequest)
Encode(c) ==
  LET cs == calls[c]
      o == cs.origin
      used == SetCall(World, c, [cs EXCEPT !.failedPair = IF cs.runs = 1 THEN cs.pairId ELSE @])
  IN
  /\ cs.pc = "acquired"
  /\ IF ~getEncDecState(encDecState, StateKey("encoder", o, cs.pairId))
       THEN /\ Spend(0)
            /\ Commit(Catch(used, c, MteRelayError(StateNotFound)))
       ELSE \/ /\ Budget(1) /\ Spend(1)
               /\ Commit(Catch(used, c, MteRelayError(FailedToEncode)))
            \/ \* a malformed encodeHeaders option
               /\ Budget(1) /\ Spend(1)
               /\ Commit(Catch(World, c, Error("TypeError")))
            \/ /\ Spend(0)
               /\ Commit(SetCall(World, c, [cs EXCEPT !.pc = "sent", !.sends = @ + 1]))
  /\ UNCHANGED <<encDecState, rec, units>>

\* the primary request is answered: up to `await decodeResponse`.  The wire header
\* of the response names the pair of the request or, irregularly, another queued pair.
Response(c) ==
  LET cs == calls[c]
      o == cs.origin
  IN
  /\ cs.pc = "sent"
  /\ \/ /\ Budget(1) /\ Spend(1)
        /\ \E m \in {"fetch failed", "Origin is not an MTE Relay server.",
                     "Response is missing clientId header"} :
             Commit(Catch(World, c, Error(m)))
     \/ \* !response.ok with an MTE error status
        /\ Budget(1) /\ Spend(1)
        /\ \E s \in ServerStatuses :
             Commit(Catch(SetCall(World, c,
                            [cs EXCEPT !.failedPair =
                               IF s # InvalidClientId /\ cs.runs = 1 THEN cs.pairId ELSE @]),
                          c, MteRelayError(s)))
     \/ \* setClientId(requestOrigin, parsedRelayHeaders.clientId)
        \E a \in AnswerClientIds(World, o, ClientIds), rp \in QueuedIds(o) \cup {cs.pairId} :
          LET f == a.fault + (IF rp = cs.pairId THEN 0 ELSE 1) IN
          /\ Budget(f) /\ Spend(f)
          /\ Commit(SetCall(setClientId(World, o, a.cid), c,
                            [cs EXCEPT !.pc = "responded", !.respPairId = rp,
                                       !.respClientId = a.cid]))
  /\ UNCHANGED <<encDecState, rec, units>>

\* decodeResponse with decoderId decoder.<origin>.<pairId of the response header>
Decode(c) ==
  LET cs == calls[c]
      o == cs.origin
      used == SetCall(World, c, [cs EXCEPT !.failedPair = IF cs.runs = 1 THEN cs.respPairId ELSE @])
  IN
  /\ cs.pc = "responded"
  /\ IF ~getEncDecState(encDecState, StateKey("decoder", o, cs.respPairId))
       THEN /\ Spend(0)
            /\ Commit(Catch(used, c, MteRelayError(StateNotFound)))
       ELSE \/ /\ Budget(1) /\ Spend(1)
               /\ \E s \in DecodeFailures : Commit(Catch(used, c, MteRelayError(s)))
            \/ /\ Spend(0)
               /\ Commit(Resolve(World, c))
  /\ UNCHANGED <<encDecState, rec, units>>

\* a background pairing with the catch of the awaited one
settleCaught(w, k, t) ==
  IF t.pc = "failed"
    THEN setOriginStatus([w EXCEPT !.bg[k] = t], t.origin, "invalid")
    ELSE [w EXCEPT !.bg[k] = t]

\* pairWithOrigin(requestOrigin, 1) in the catch block: the promise is dropped, so
\* whatever it comes to, nothing follows
settleDropped(w, k, t) == [w EXCEPT !.bg[k] = t]

\* one continuation of a background pairWithOrigin(requestOrigin, 1); nobody awaits it
BackgroundPairing(k) ==
  /\ bg[k].pc \notin {"ok", "failed"}
  /\ \E r \in PairNext(bg[k], World, encDecState) :
       /\ Budget(r.fault) /\ Spend(r.fault)
       /\ encDecState' = r.sc
       \* nothing follows the loop of a pairing that nobody awaits
       /\ Commit(settleDropped(r.w, k,
                    IF r.t.pc = "loop" /\ r.t.j > r.t.n THEN TaskOk(r.t) ELSE r.t))
  /\ UNCHANGED <<rec, units>>

InitRelay ==
  /\ calls = [c \in Calls |-> IdleCall]
  /\ originStatus = [o \in Origins |-> NoStatus]
  /\ clientIdCache = [o \in Origins |-> NoClient]
  \* a first visit, or a client id left in localStorage by an earlier visit
  /\ localStorage \in [Origins -> {"c1", NoClient}]
  /\ pairIds = [o \in Origins |-> NoQueue]
  /\ encDecState = {}
  /\ bg = <<>>
  /\ nextId = 1
  /\ faults = 0
  /\ rec = NoRecords

Init ==
  /\ InitRelay
  /\ remote = NoRemote
  /\ wire = NoWire
  /\ engine = NoEngine
  /\ codec = NoCodec

Next ==
  \/ \E c \in Calls : Start(c)
  \/ \E c \in Calls : AfterStatus(c)
  \/ \E c \in Calls : ProbeResponse(c)
  \/ \E c \in Calls : StartPairing(c)
  \/ \E c \in Calls : PairingStep(c)
  \/ \E c \in Calls : Poll(c)
  \/ \E c \in Calls : Encode(c)
  \/ \E c \in Calls : Response(c)
  \/ \E c \in Calls : Decode(c)
  \/ \E k \in DOMAIN bg : BackgroundPairing(k)

Spec == Init /\ [][Next]_vars

\* the callers of the record cache of src/mte/cache.ts
NextRecord ==
  \/ \E k \in Callers : RecordCall(k)
  \/ \E k \in Callers : RecordResume(k)
  \/ \E k \in Callers : RecordSetStatus(k)
  \/ \E k \in Callers : RecordPoll(k)

\* what call c does next, whichever await it is at
CallStep(c) ==
  \/ AfterStatus(c) \/ ProbeResponse(c) \/ StartPairing(c) \/ PairingStep(c)
  \/ Poll(c) \/ Encode(c) \/ Response(c) \/ Decode(c)

\* call c was issued and has not settled
InFlight(c) == ~Finished(calls[c]) /\ calls[c].pc # "idle"

\* Every await of a call resolves or rejects: the transport answers, the cache
\* answers, the timer of sleep fires.  This is WF_vars(CallStep(c)) for every call c,
\* written out as []<>(~ENABLED <<CallStep(c)>>_vars) \/ []<><<CallStep(c)>>_vars with
\* what the two parts come to here: CallStep(c) is enabled exactly while c is in
\* flight (CallStepEnabled), and the steps of c are the steps that change calls[c]
\* (CallStepMoves).
FairSpec ==
  Spec /\ \A c \in Calls : ([]<>(~InFlight(c)) \/ []<><<calls'[c] # calls[c]>>_vars)

SpecRecord == Init /\ [][NextRecord]_vars

\* the operations of origin-records.ts, and setOriginStatus and setClientId of the relay
NextStatus ==
  \/ \E o \in Origins : RemoteGet(o)
  \/ \E o \in Origins, status \in RemoteStatus, clientId \in ClientIds \cup {NoClient} :
       RemoteSetStatus(o, status, clientId)
  \/ \E o \in Origins, pairId \in RemoteIds : RemoteAddPairId(o, pairId)
  \/ \E o \in Origins : RemoteGetNextPairId(o)
  \/ \E o \in Origins, pairId \in RemoteIds : RemoteDeleteId(o, pairId)
  \/ \E o \in Origins, status \in OriginStatus : StatusSet(o, status)
  \/ \E o \in Origins, clientId \in ClientIds : ClientIdSet(o, clientId)

SpecStatus == Init /\ [][NextStatus]_vars

\* a header is formatted from options and parsed back
InitWire ==
  /\ InitRelay
  /\ remote = NoRemote
  /\ codec = NoCodec
  /\ engine = NoEngine
  /\ wire \in {[pc |-> "options", options |-> o, header |-> <<>>, parsed |-> o] :
                o \in WireOptions}

NextWire == Format \/ Parse

SpecWire == InitWire /\ [][NextWire]_vars

\* a request, or a response (whose route is empty), is encoded and decoded
InitCodec ==
  /\ InitRelay
  /\ remote = NoRemote
  /\ wire = NoWire
  /\ engine = NoEngine
  /\ codec \in {[pc |-> "plain", kind |-> k, message |-> m, options |-> o, plain |-> p,
                  encoded |-> m, decoded |-> m] :
                  k \in {"request", "response"}, m \in Messages, o \in CodecOptions,
                  p \in BOOLEAN}
  /\ codec.kind = "response" => codec.message.route = <<>> /\ codec.options.encodeUrl

NextCodec == EncodeRequest \/ DecodeRequest \/ EncodeResponse \/ DecodeResponse

SpecCodec == InitCodec /\ [][NextCodec]_vars

\* the client encodes a request and sends it
InitClient ==
  /\ InitRelay
  /\ remote = NoRemote
  /\ wire = NoWire
  /\ engine = NoEngine
  /\ codec \in {[pc |-> "plain", kind |-> "client", message |-> m, options |-> o,
                  plain |-> p, encodeCalls |-> 0, items |-> <<>>, encoded |-> m] :
                  m \in ClientMessages, o \in ClientOptions, p \in BOOLEAN}

NextClient == ClientEncode \/ ClientFetch

SpecClient == InitClient /\ [][NextClient]_vars

\* a response arrives from the server and is decoded
InitWireResponse ==
  /\ InitRelay
  /\ remote = NoRemote
  /\ wire = NoWire
  /\ engine = NoEngine
  /\ codec \in {[pc |-> "received", kind |-> "wire", parts |-> p,
                  encoded |-> wireResponse(p), decoded |-> wireResponse(p)] :
                  p \in WireParts}

NextWireResponse == WireDecode \/ WireReturn

SpecWireResponse == InitWireResponse /\ [][NextWireResponse]_vars

\* the engine is set up once, pairs are instantiated, encode and decode are called
InitEngine ==
  /\ InitRelay
  /\ remote = NoRemote
  /\ wire = NoWire
  /\ codec = NoCodec
  /\ engine = LoadedEngine

NextEngine ==
  \/ \E optMte \in PoolSizeOptions, optMke \in PoolSizeOptions :
       InstantiateMteWasm(optMte, optMke)
  \/ \E kind \in {"encode", "decode"} : Instantiate(kind)
  \/ \E o \in EngineCalls, kind \in {"encode", "decode"}, type \in EncDecType,
        items \in 0..MaxItems, empty \in 0..MaxItems : EngineCall(o, kind, type, items, empty)
  \/ \E o \in EngineCalls, outcome \in EngineOutcomes : EngineRun(o, outcome)
  \/ \E o \in EngineCalls, ok \in BOOLEAN : EngineFinish(o, ok)

SpecEngine == InitEngine /\ [][NextEngine]_vars

\* a decoder has been restored; its reseed counter does not exceed the interval
InitReseed ==
  /\ InitRelay
  /\ remote = NoRemote
  /\ wire = NoWire
  /\ codec = NoCodec
  /\ engine \in {[pc |-> "restored", counter |-> c, interval |-> t, items |-> 1,
                   decoded |-> 0, status |-> 0] : c \in Numbers, t \in Numbers}
  /\ AtMost(engine.counter, engine.interval)

NextReseed == ReseedCheck \/ ReseedDecodeItems

SpecReseed == InitReseed /\ [][NextReseed]_vars

\* the pools are filled and one pair is instantiated for a server
InitLegacy ==
  /\ InitRelay
  /\ remote = NoRemote
  /\ wire = NoWire
  /\ codec = NoCodec
  /\ engine \in {[pc |-> "legacy", serverId |-> s,
                   store |-> [r \in Roles |-> FirstState],
                   encoderPool |-> MAX_POOL_SIZE, decoderPool |-> MAX_POOL_SIZE,
                   calls |-> [o \in LegacyCalls |-> IdleLegacyCall]] : s \in ServerIds}

NextLegacy ==
  \/ \E o \in LegacyCalls, kind \in {"encode", "decode"} : LegacyCall(o, kind)
  \/ \E o \in LegacyCalls, ok \in BOOLEAN : LegacyRun(o, ok)
  \/ \E o \in LegacyCalls, ok \in BOOLEAN : LegacyFinish(o, ok)

SpecLegacy == InitLegacy /\ [][NextLegacy]_vars

\* nothing is cached
InitCache ==
  /\ InitRelay
  /\ remote = NoRemote
  /\ wire = NoWire
  /\ codec = NoCodec
  /\ engine = [pc |-> "cache", cache |-> [k \in CacheKeys |-> Absent],
               localStorage |-> [k \in {clientIdKey(o) : o \in Hosts} |-> Absent],
               origin |-> <<"a">>, pairId |-> Absent, made |-> 0]

NextCache ==
  \/ \E o \in Hosts : CacheGetOriginStatus(o)
  \/ \E o \in Hosts : CacheSetOriginStatus(o, "paired")
  \/ \E o \in Hosts : CacheSetClientId(o, "c1")
  \/ \E o \in Hosts : CacheDeleteClientId(o)
  \/ \E o \in Hosts, p \in AnsweredIds : CachePair(o, p)
  \/ \E o \in Hosts : CacheAcquire(o)
  \/ \E o \in Hosts, k \in 1..MaxPairings : CacheEvict(o, k)
  \/ \E o \in Hosts, r \in Roles, p \in AnsweredIds : CacheUse(r, o, p)

SpecCache == InitCache /\ [][NextCache]_vars

\* ---------------------------------------------------------------- properties
InHandshake(cs) == cs.pc \in {"probe", "validated", "pairing"}
Holding(cs) == cs.pc \in {"acquired", "sent", "responded"}
PairSpecific(e) == e.mte /\ e.status # InvalidClientId
\* this step ran the catch block of call c: the call rejected or its retry began
CatchStep(c) ==
  /\ ~Finished(calls[c])
  /\ calls[c].pc # "idle"
  /\ (calls'[c].pc = "failed" \/ calls'[c].runs = calls[c].runs + 1)

\* C1: of the callers that read the status of a never seen origin, at most one is
\* told to validate (and the others are told pending).
C1_FirstObserverWins ==
  \A k, l \in Callers :
    (rec.callers[k].first = "validate-now" /\ rec.callers[l].first = "validate-now")
      => k = l

\* C2, as stated: for one origin at most one call at a time is in the handshake
\* (probe, pairing), revalidations included.
C2_OneHandshakeAtATime ==
  \A c, d \in Calls :
    (InHandshake(calls[c]) /\ InHandshake(calls[d]) /\ calls[c].origin = calls[d].origin)
      => c = d

\* C2, amended: while the first observer of an origin (a call that is not a
\* revalidating retry) is in the handshake, every other call to that origin is not
\* yet issued, has just read the status, waits in the polling loop or gave up
\* waiting; only revalidating retries can be in the handshake side by side.
C2_FirstObserverExclusive ==
  \A c, d \in Calls :
    (c # d /\ InHandshake(calls[c]) /\ ~calls[c].revalidateServer
       /\ calls[d].origin = calls[c].origin)
      => /\ calls[d].pc \in {"status", "sleep", "failed"}
         /\ ~calls[d].revalidateServer
         /\ calls[d].pc = "status" => calls[d].status = "pending"

\* C2 witness: the first observer is in its pairing and another call polls
C2_Witness ==
  \E c, d \in Calls :
    /\ calls[c].pc = "pairing" /\ ~calls[c].revalidateServer
    /\ calls[d].pc = "sleep" /\ calls[d].origin = calls[c].origin /\ calls[d].i > 1

\* C3, as stated: two calls that hold a pair id at the same time (acquired, not yet
\* decoded) hold different pair ids.
C3_NoSharedPair ==
  \A c, d \in Calls :
    (Holding(calls[c]) /\ Holding(calls[d]) /\ calls[c].origin = calls[d].origin
       /\ calls[c].pairId = calls[d].pairId)
      => c = d

\* C3, amended: an acquisition hands out the head of the origin's queue and moves it
\* to the tail (round robin); nothing keeps a handed out pair id from being handed
\* out again while its holder is in flight.
C3_RoundRobin ==
  [][\A c \in Calls :
       (calls'[c].pc = "acquired" /\ calls[c].pc # "acquired")
         => LET q == pairIds[calls'[c].origin].ids IN
            /\ q # <<>>
            /\ calls'[c].pairId = Head(q)
            /\ pairIds'[calls'[c].origin].ids = Append(Tail(q), Head(q))]_vars

\* C3 witness: a call holds the pair id it acquired, now the last of two in the queue
C3_Witness ==
  \E c \in Calls :
    LET q == pairIds[calls[c].origin].ids IN
    /\ calls[c].pc = "acquired"
    /\ Len(q) >= 2
    /\ q[Len(q)] = calls[c].pairId

\* C4: sendMteRequest runs at most twice for a call and the primary request is
\* handed to fetch at most twice.
C4_BoundedRetry ==
  \A c \in Calls : calls[c].runs <= 2 /\ calls[c].sends <= 2

\* C4 witness: a call sent its primary request for the second time
C4_Witness ==
  \E c \in Calls : calls[c].pc = "sent" /\ calls[c].runs = 2 /\ calls[c].sends = 2

\* C5: a call whose first attempt caught a protocol error ran a second attempt, and
\* if it rejected, it rejected with that protocol error.
C5_ProtocolErrorRetriedOnce ==
  \A c \in Calls :
    (Finished(calls[c]) /\ calls[c].firstErr.mte)
      => /\ calls[c].runs = 2
         /\ calls[c].pc = "failed" => calls[c].outcome = calls[c].firstErr

\* C6: the catch block, entered with an error that is no MteRelayError, rejects the
\* call with that error: no retry, the queues as they were, no pairing started.
C6_NonProtocolPropagates ==
  [][\A c \in Calls :
       (CatchStep(c) /\ calls'[c].caught # NoError /\ ~calls'[c].caught.mte)
         => /\ calls'[c].pc = "failed"
            /\ calls'[c].outcome = calls'[c].caught
            /\ calls'[c].runs = calls[c].runs
            /\ pairIds' = pairIds
            /\ bg' = bg]_vars

\* C6 witness: a call that had acquired a pair was rejected with a plain Error
C6_Witness ==
  \E c \in Calls :
    /\ calls[c].pc = "failed"
    /\ calls[c].caught = Error("fetch failed")
    /\ calls[c].outcome = calls[c].caught
    /\ calls[c].pair.pc = "ok"
    /\ pairIds[calls[c].origin].ids # <<>>

\* C7: when the first attempt catches status 566, the same step sets the origin
\* status to pending, deletes the client id (cache and localStorage) and starts the
\* retry with revalidateServer; and a revalidating retry that holds a pair id has
\* probed and has finished a pairing that asked for NUMBER_OF_PAIRS pairs.
C7_SecretRotation ==
  /\ [][\A c \in Calls :
          (CatchStep(c) /\ calls[c].runs = 1
             /\ calls'[c].caught = MteRelayError(InvalidClientId))
            => /\ originStatus'[calls[c].origin] = "pending"
               /\ clientIdCache'[calls[c].origin] = NoClient
               /\ localStorage'[calls[c].origin] = NoClient
               /\ calls'[c].pc = "status"
               /\ calls'[c].runs = 2
               /\ calls'[c].revalidateServer]_vars
  /\ [](\A c \in Calls :
          (calls[c].revalidateServer /\ Holding(calls[c]))
            => /\ calls[c].probed
               /\ calls[c].pair.pc = "ok"
               /\ calls[c].pair.asked = NUMBER_OF_PAIRS)

\* C7 witness: a revalidating retry sent its request
C7_Witness ==
  \E c \in Calls : calls[c].revalidateServer /\ calls[c].pc = "sent" /\ calls[c].runs = 2

\* C8: in the retry after a pair-specific protocol error, the pair whose state the
\* failing encode or decode used is not in the queue and is not the pair acquired.
C8_FailedPairEvicted ==
  \A c \in Calls :
    (calls[c].runs = 2 /\ ~Finished(calls[c]) /\ PairSpecific(calls[c].firstErr)
       /\ calls[c].failedPair # 0)
      => /\ calls[c].failedPair \notin QueuedIds(calls[c].origin)
         /\ Holding(calls[c]) => calls[c].pairId # calls[c].failedPair

\* C9: the catch block, entered with a pair-specific protocol error, starts one
\* background pairing that asks for one pair, and a first attempt's retry begins in
\* the same step.
C9_SingleReplacementPairing ==
  [][\A c \in Calls :
       (CatchStep(c) /\ PairSpecific(calls'[c].caught))
         => /\ Len(bg') = Len(bg) + 1
            /\ bg'[Len(bg')].asked = 1
            /\ bg'[Len(bg')].pc = "post"
            /\ calls[c].runs = 1 => calls'[c].pc = "status"]_vars

\* C10: when a pairing fails (a call's own or a background one), the origin status
\* is invalid and none of the pair ids of that pairing is in the origin's queue.
C10_FailedPairingLeavesNothing ==
  [][/\ \A c \in Calls :
          (calls'[c].pair.pc = "failed" /\ calls[c].pair.pc # "failed")
            => /\ originStatus'[calls'[c].pair.origin] = "invalid"
               /\ TaskIds(calls[c].pair) \cap
                    {pairIds'[calls[c].origin].ids[k] :
                       k \in 1..Len(pairIds'[calls[c].origin].ids)} = {}
     /\ \A k \in DOMAIN bg :
          (bg'[k].pc = "failed" /\ bg[k].pc # "failed")
            => /\ originStatus'[bg[k].origin] = "invalid"
               /\ TaskIds(bg[k]) \cap
                    {pairIds'[bg[k].origin].ids[j] :
                       j \in 1..Len(pairIds'[bg[k].origin].ids)} = {}]_vars

\* C11: a call that has acquired a pair id finds both the encoder state and the
\* decoder state of that pair in the state cache (no pair id is acquired between the
\* commit of its encoder state and the commit of its decoder state).
C11_AcquiredPairComplete ==
  \A c \in Calls :
    calls[c].pc = "acquired"
      => /\ getEncDecState(encDecState, StateKey("encoder", calls[c].origin, calls[c].pairId))
         /\ getEncDecState(encDecState, StateKey("decoder", calls[c].origin, calls[c].pairId))

\* C12: when the first pairing of an origin completes (the first observer sets the
\* status to paired), the origin's queue holds exactly NUMBER_OF_PAIRS distinct pair
\* ids: the ids this pairing generated.
C12_QueueHoldsNumberOfPairs ==
  [][\A c \in Calls :
       (calls[c].pc = "pairing" /\ ~calls[c].revalidateServer
          /\ originStatus[calls[c].origin] # "paired"
          /\ originStatus'[calls[c].origin] = "paired")
         => LET q == pairIds'[calls[c].origin].ids IN
            /\ Len(q) = NUMBER_OF_PAIRS
            /\ {q[k] : k \in 1..Len(q)} = TaskIds(calls[c].pair)]_vars

\* C12 with a relay that answers every pair it was asked for: the same, for a
\* pairing whose response carried as many entries as were asked
C12_RegularAnswer ==
  [][\A c \in Calls :
       (calls[c].pc = "pairing" /\ ~calls[c].revalidateServer
          /\ calls[c].pair.n = calls[c].pair.asked
          /\ originStatus[calls[c].origin] # "paired"
          /\ originStatus'[calls[c].origin] = "paired")
         => LET q == pairIds'[calls[c].origin].ids IN
            /\ Len(q) = NUMBER_OF_PAIRS
            /\ {q[k] : k \in 1..Len(q)} = TaskIds(calls[c].pair)]_vars

\* C13: when the probe of a call is answered and the probe does not succeed (the
\* fetch rejects, the response is not ok, or it lacks the wire header or its
\* clientId), the same step sets the origin status to invalid and rejects the call:
\* no pairing POST and no primary request follow.
C13_FailedProbeInvalidates ==
  [][\A c \in Calls :
       (calls[c].pc = "probe" /\ calls'[c].pc \notin {"probe", "validated"})
         => /\ originStatus'[calls[c].origin] = "invalid"
            /\ calls'[c].pc = "failed"]_vars

\* C14, as stated: every change of an origin's status is one of never seen to
\* pending, pending to paired, pending to invalid, paired to pending; so invalid is
\* never left and paired never becomes invalid.
C14_StatusEdgesAsStated ==
  [][\A o \in Origins :
       originStatus'[o] # originStatus[o]
         => <<originStatus[o], originStatus'[o]>> \in
              {<<NoStatus, "pending">>, <<"pending", "paired">>,
               <<"pending", "invalid">>, <<"paired", "pending">>}]_vars

\* C14, amended: a never seen origin becomes pending and no origin becomes never seen
\* again; apart from that the new status depends on the step, not on the old status:
\* paired is set by the call whose pairing completes, invalid by a call whose
\* handshake fails (the call is rejected in that step), pending by a call that
\* catches status 566 or whose probe succeeds.
C14_StatusEdges ==
  [][\A o \in Origins :
       originStatus'[o] # originStatus[o]
         => /\ originStatus'[o] # NoStatus
            /\ originStatus[o] = NoStatus => originStatus'[o] = "pending"
            /\ originStatus'[o] = "paired"
                 => \E c \in Calls :
                      /\ calls[c].origin = o /\ calls[c].pc = "pairing"
                      /\ calls'[c].pair.pc = "ok"
            /\ originStatus'[o] = "invalid"
                 => \E c \in Calls :
                      /\ calls[c].origin = o /\ InHandshake(calls[c])
                      /\ calls'[c].pc = "failed"
            /\ (originStatus'[o] = "pending" /\ originStatus[o] # NoStatus)
                 => \E c \in Calls :
                      /\ calls[c].origin = o
                      /\ \/ calls[c].pc = "probe" /\ calls'[c].pc = "validated"
                         \/ CatchStep(c) /\ calls'[c].caught = MteRelayError(InvalidClientId)]_vars

\* C14 witness: the handshake of one call failed (status invalid) and the probe of
\* a revalidating call has set the status to pending since
C14_Witness ==
  \E c, d \in Calls :
    /\ calls[d].pc = "failed" /\ calls[d].pair.pc = "failed"
    /\ calls[c].pc = "validated" /\ calls[c].revalidateServer
    /\ calls[c].origin = calls[d].origin
    /\ originStatus[calls[c].origin] = "pending"

\* C15: a call that read status invalid on entry and is not a forced revalidation
\* is rejected by its next step, which answers no transport request, acquires no
\* pair and starts no pairing.
C15_InvalidFailsAtOnce ==
  [][\A c \in Calls :
       (calls[c].pc = "status" /\ calls[c].status = "invalid"
          /\ ~calls[c].revalidateServer /\ calls'[c] # calls[c])
         => /\ calls'[c].pc = "failed"
            /\ calls'[c].outcome = Error("Origin is not an MTE Relay server.")
            /\ calls'[c].runs = calls[c].runs
            /\ faults' = faults
            /\ pairIds' = pairIds
            /\ bg' = bg
            /\ nextId' = nextId]_vars

\* C15 witness: a call has read status invalid on entry, not as a revalidation
C15_Witness ==
  \E c \in Calls :
    /\ calls[c].pc = "status" /\ calls[c].status = "invalid"
    /\ ~calls[c].revalidateServer
    /\ pairIds[calls[c].origin].ids # <<>>

\* C16: a waiting call is in pass i of at most 19 of its polling loop, one status
\* read per pass; a pass that reads paired ends the loop (the call acquires a pair,
\* or is rejected because the acquisition throws), a pass that reads invalid rejects
\* the call, a pass that reads pending goes on to the next pass, and rejects the
\* call when it is pass 19.  A pair is acquired only after a read of paired.
C16_PendingPoll ==
  /\ [](\A c \in Calls : calls[c].pc = "sleep" => calls[c].i \in 1..19)
  /\ [][\A c \in Calls :
          (calls[c].pc = "sleep" /\ calls'[c] # calls[c])
            => LET v == originStatus[calls[c].origin] IN
               /\ v = "paired" => calls'[c].pc \in {"acquired", "failed"}
               /\ v = "invalid" => calls'[c].pc = "failed"
               /\ (v = "pending" /\ calls[c].i < 19)
                    => calls'[c].pc = "sleep" /\ calls'[c].i = calls[c].i + 1
               /\ (v = "pending" /\ calls[c].i = 19) => calls'[c].pc = "failed"
               /\ v \in {"paired", "invalid", "pending"}
               /\ calls'[c].pc = "failed"
                    => /\ ~calls'[c].outcome.mte
                       /\ calls'[c].runs = calls[c].runs
                       /\ pairIds' = pairIds]_vars

\* C16 witness: a call is in the last pass of its polling loop, the status still pending
C16_Witness ==
  \E c \in Calls :
    calls[c].pc = "sleep" /\ calls[c].i = 19 /\ originStatus[calls[c].origin] = "pending"

\* the ids returned by m successive getNextPairIdFromQueue(origin) from world w
RECURSIVE AcquiredIds(_, _, _)
AcquiredIds(w, origin, m) ==
  IF m = 0 THEN <<>>
  ELSE <<Head(w.pairIds[origin].ids)>>
         \o AcquiredIds(getNextPairIdWorld(w, origin), origin, m - 1)

\* the queue of origin after m successive getNextPairIdFromQueue(origin) from world w
RECURSIVE QueueAfter(_, _, _)
QueueAfter(w, origin, m) ==
  IF m = 0 THEN w.pairIds[origin].ids
  ELSE QueueAfter(getNextPairIdWorld(w, origin), origin, m - 1)

SeqIds(q) == {q[k] : k \in 1..Len(q)}

\* C17: from every queue of N >= 1 pair ids the program reaches, M successive
\* acquisitions with no enqueue or eviction in between return the ids in queue
\* order cyclically (the m-th returns the id at place ((m-1) mod N) + 1), every one
\* of them leaves the set of queued ids as it was, and N of them leave the queue as
\* it was; and the step of a call that acquires a pair returns the head of the
\* queue and leaves the set of queued ids unchanged.
C17_RoundRobinPeriodic ==
  /\ [](\A o \in Origins :
          LET q == pairIds[o].ids
              N == Len(q)
          IN  N >= 1 =>
                /\ \A m \in 1..(2 * N + 1) :
                     /\ AcquiredIds(World, o, m)[m] = q[((m - 1) % N) + 1]
                     /\ SeqIds(QueueAfter(World, o, m)) = SeqIds(q)
                     /\ Len(QueueAfter(World, o, m)) = N
                /\ QueueAfter(World, o, N) = q)
  /\ [][\A c \in Calls :
          (calls'[c].pc = "acquired" /\ calls[c].pc # "acquired")
            => /\ calls'[c].pairId = Head(pairIds[calls'[c].origin].ids)
               /\ SeqIds(pairIds'[calls'[c].origin].ids)
                    = SeqIds(pairIds[calls'[c].origin].ids)
               /\ Len(pairIds'[calls'[c].origin].ids) = Len(pairIds[calls'[c].origin].ids)]_vars

\* C17 witness: two calls acquired one after the other from a queue of two pair ids;
\* the queue is back in its first order, the first call holds the first id and the
\* second call, which has just acquired, the second
C17_Witness ==
  \E c, d \in Calls :
    LET q == pairIds[calls[c].origin].ids IN
    /\ c # d
    /\ calls[c].origin = calls[d].origin
    /\ Holding(calls[c])
    /\ calls[d].pc = "acquired"
    /\ Len(q) = 2
    /\ calls[c].pairId = q[1]
    /\ calls[d].pairId = q[2]

\* C18: setting an origin's status is idempotent.  In origin-records.ts, from every
\* store the operations reach, setRemoteStatus(origin, status, clientId) applied
\* twice leaves the store that one application leaves; after it the record has the
\* status set, and the clientId set when one was given, the clientId it had before
\* (null for a new record) when none was given; and a step that repeats the last
\* setRemoteStatus changes no record.  In the relay, setOriginStatus applied twice
\* leaves the caches that one application leaves and never touches the client id.
C18_SetStatusIdempotent ==
  /\ [](\A o \in Origins, status \in RemoteStatus, clientId \in ClientIds \cup {NoClient} :
          LET once == setRemoteStatus(remote, o, status, clientId)
              twice == setRemoteStatus(once, o, status, clientId)
          IN  /\ twice = once
              /\ once.cache[o].exists
              /\ once.cache[o].status = status
              /\ once.cache[o].clientId =
                   IF clientId # NoClient THEN clientId ELSE remote.cache[o].clientId
              /\ once.cache[o].pairIdQueue = remote.cache[o].pairIdQueue)
  /\ [](\A o \in Origins, status \in OriginStatus :
          LET once == setOriginStatus(World, o, status)
          IN  /\ setOriginStatus(once, o, status) = once
              /\ getOriginStatusValue(once, o) = status
              /\ getClientIdValue(once, o) = getClientIdValue(World, o))
  /\ [][remote'.repeated => remote'.cache = remote.cache]_vars

\* C18 witness: the same setRemoteStatus was applied twice in a row, with no clientId,
\* to a record that holds a clientId and a queued pair id
C18_Witness ==
  /\ remote.repeated
  /\ remote.last.clientId = NoClient
  /\ \E o \in Origins :
       /\ remote.cache[o].clientId \in ClientIds
       /\ remote.cache[o].status = remote.last.status
       /\ remote.cache[o].pairIdQueue # <<>>
  /\ \E o \in Origins : originStatus[o] = "paired" /\ clientIdCache[o] \in ClientIds

NoComma(str) == ~InSeq(",", str)
Bit(b) == IF b THEN <<"1">> ELSE <<"0">>

\* C20: the formatted header is clientId, pairId, mode (0 for MTE, 1 for MKE),
\* urlEncoded, headersEncoded, bodyEncoded (1 for true, 0 for false), in this order
\* with a comma between neighbours; and when neither clientId nor pairId holds a
\* comma, parsing the formatted header gives back the clientId, the pairId, the
\* mode and the three flags.
C20_WireHeaderRoundTrip ==
  LET h == wire.options IN
  /\ wire.pc \in {"formatted", "parsed"}
       => wire.header =
            h.clientId \o <<",">> \o h.pairId \o <<",">>
              \o (IF h.type = "MTE" THEN <<"0">> ELSE <<"1">>) \o <<",">>
              \o Bit(h.urlIsEncoded) \o <<",">>
              \o Bit(h.headersAreEncoded) \o <<",">>
              \o Bit(h.bodyIsEncoded)
  /\ (wire.pc = "parsed" /\ NoComma(h.clientId) /\ NoComma(h.pairId))
       => /\ wire.parsed.clientId = h.clientId
          /\ wire.parsed.pairId = h.pairId
          /\ wire.parsed.type = h.type
          /\ wire.parsed.urlIsEncoded = h.urlIsEncoded
          /\ wire.parsed.headersAreEncoded = h.headersAreEncoded
          /\ wire.parsed.bodyIsEncoded = h.bodyIsEncoded

\* C20 witness: a header of mode MKE with ids of two characters without a comma,
\* one of them a digit, and flags that differ, was formatted and parsed
C20_Witness ==
  /\ wire.pc = "parsed"
  /\ wire.options.type = "MKE"
  /\ wire.options.clientId = <<"a", "1">>
  /\ wire.options.pairId = <<"1", "a">>
  /\ wire.options.urlIsEncoded
  /\ ~wire.options.headersAreEncoded
  /\ wire.options.bodyIsEncoded

\* the header n was given to the encoder to encode
Selected(n) ==
  headersToEncode(codec.message.headers, codec.options.encodeHeaders)[n] # <<>>

\* C19: decoding what the codec encoded never throws and gives back the original
\* route and query, the original value of every header that was encoded, and the
\* original body, whatever the encoding choices.
C19_CodecRoundTrip ==
  /\ codec.pc # "threw"
  /\ codec.pc = "decoded"
       => /\ codec.decoded.route = codec.message.route
          /\ \A n \in HeaderNames :
               Selected(n) => codec.decoded.headers[n] = codec.message.headers[n]
          /\ codec.decoded.body = codec.message.body

\* C21: no request whose encoded URL is longer than 2048 characters is sent.
C21_LongUrlNotSent ==
  codec.pc = "sent" => urlLength(codec.encoded) <= 2048

\* the parts of the request of the client that the claim wants submitted, in order
Parts ==
  LET m == codec.message
      o == codec.options
      bag == \/ m.headers["content-type"] # <<>>
             \/ o.encodeHeaders = "true" /\ \E n \in HeaderNames : m.headers[n] # <<>>
             \/ o.encodeHeaders = "list"
                  /\ \E i \in 1..Len(HeaderList) : m.headers[HeaderList[i]] # <<>>
  IN  (IF o.encodeUrl THEN <<"url">> ELSE <<>>)
        \o (IF bag THEN <<"headers">> ELSE <<>>)
        \o (IF m.body # <<>> THEN <<"body">> ELSE <<>>)
PartAt(part) == CHOOSE i \in 1..Len(Parts) : Parts[i] = part

\* C28: the client's encodeRequest calls encode once; the items are the route and
\* query (if URL encoding is on), the header bag (if not empty) and the body (if not
\* empty), in this order; the result of each item is put where the item came from
\* (URL, encoded-headers header, body) and what was not submitted stays as it was;
\* the three flags of the wire header tell exactly the parts submitted; and no
\* empty body is among the items.
C28_OneOrderedEncode ==
  codec.pc \in {"encoded", "sent"} =>
    LET m == codec.message
        e == codec.encoded
        h == parseMteRelayHeader(e.headers["x-mte-relay"])
        Result(part) == encodeItem(codec.items[PartAt(part)], codec.plain)
    IN  /\ codec.encodeCalls = 1
        /\ Len(codec.items) = Len(Parts)
        /\ \A i \in 1..Len(Parts) :
             /\ Parts[i] = "url"
                  => codec.items[i] = [data |-> m.route, output |-> "B64"]
             /\ Parts[i] = "headers"
                  => IsJSON(codec.items[i].data) /\ codec.items[i].output = "B64"
             /\ Parts[i] = "body"
                  => codec.items[i] = [data |-> m.body, output |-> "Uint8Array"]
        /\ \A i \in 1..Len(codec.items) :
             codec.items[i].output = "Uint8Array" => codec.items[i].data # <<>>
        /\ e.route = IF InSeq("url", Parts)
                       THEN encodeURIComponent(Result("url")) ELSE m.route
        /\ e.headers["MTE_ENCODED_HEADERS_HEADER"] =
             IF InSeq("headers", Parts) THEN Result("headers") ELSE <<>>
        /\ e.body = IF InSeq("body", Parts) THEN Result("body") ELSE m.body
        /\ h.urlIsEncoded = InSeq("url", Parts)
        /\ h.headersAreEncoded = InSeq("headers", Parts)
        /\ h.bodyIsEncoded = InSeq("body", Parts)

\* C28 witness: a request with a route, a listed header, a content-type and a body
\* was encoded with URL encoding on
C28_Witness ==
  /\ codec.pc = "encoded"
  /\ codec.kind = "client"
  /\ Parts = <<"url", "headers", "body">>
  /\ codec.options.encodeHeaders = "list"
  /\ codec.message.route = <<"a", "?", "a">>

\* the header n of the request is selected for encoding
SelectedByClient(n) ==
  /\ codec.message.headers[n] # <<>>
  /\ \/ codec.options.encodeHeaders = "true"
     \/ codec.options.encodeHeaders = "list" /\ InSeq(n, HeaderList)

\* the header bag of the encoded request, decoded
Bag ==
  JSONparse(decodeItem([data |-> codec.encoded.headers["MTE_ENCODED_HEADERS_HEADER"],
                        bytes |-> FALSE]))

\* C29: in the request the client sends, a header selected for encoding (every
\* header with encodeHeaders true, a listed header that is present with a list) is
\* in the encoded header bag and its value is the value of no plain header; a
\* header that is not selected is sent unchanged; an original content-type is in
\* the bag, and the content-type on the wire is application/octet-stream.
C29_SelectedHeadersNotPlain ==
  codec.pc \in {"encoded", "sent"} =>
    LET m == codec.message
        e == codec.encoded
    IN  /\ \A n \in HeaderNames \ {"content-type"} :
             /\ SelectedByClient(n)
                  => /\ e.headers[n] = <<>>
                     /\ Bag[n] = m.headers[n]
                     /\ \A k \in AllHeaders : e.headers[k] # m.headers[n]
             /\ ~SelectedByClient(n) => e.headers[n] = m.headers[n]
        /\ m.headers["content-type"] # <<>>
             => /\ Bag["content-type"] = m.headers["content-type"]
                /\ \A k \in AllHeaders : e.headers[k] # m.headers["content-type"]
        /\ e.headers["content-type"] = <<"application/octet-stream">>

\* C29 witness: a request with a content-type and a listed header was encoded with
\* its headers selected, and sent without the listed header in the plain headers
C29_Witness ==
  /\ codec.pc = "sent"
  /\ codec.kind = "client"
  /\ codec.options.encodeHeaders \in {"list", "true"}
  /\ codec.message.headers["x-a"] # <<>>
  /\ codec.message.headers["content-type"] # <<>>
  /\ codec.encoded.headers["x-a"] = <<>>

\* call cs is working on the validation and pairing of origin o, or is about to
Responsible(cs, o) ==
  /\ cs.origin = o
  /\ \/ InHandshake(cs)
     \/ cs.pc = "status" /\ (cs.status = "validate" \/ cs.revalidateServer)

\* C24: whenever the status of an origin is pending, some call in flight is
\* working on its validation and pairing.
C24_PendingHasOwner ==
  \A o \in Origins :
    originStatus[o] = "pending" => \E c \in Calls : Responsible(calls[c], o)

\* call c is about to acquire a pair of its origin and will find no pair id queued
FindsQueueEmpty(c) ==
  LET cs == calls[c]
      o == cs.origin
  IN  /\ \/ cs.pc = "status" /\ cs.status = "paired" /\ ~cs.revalidateServer
         \/ cs.pc = "sleep" /\ originStatus[o] = "paired"
      /\ getClientIdValue(World, o) # NoClient
      /\ pairIds[o].ids = <<>>

\* C25: the step of a call that finds the pair queue of its origin empty rejects
\* the call, leaves the queue unchanged, and triggers a pairing for the origin (a
\* background pairing is started, or the origin is put back to be validated).
C25_EmptyQueueTriggersPairing ==
  [][\A c \in Calls :
       (FindsQueueEmpty(c) /\ calls'[c] # calls[c])
         => /\ calls'[c].pc = "failed"
            /\ pairIds' = pairIds
            /\ \/ Len(bg') > Len(bg)
               \/ originStatus'[calls[c].origin] # "paired"]_vars

\* C23: every mteFetch call that was issued settles, with a response or an error,
\* when every await of it completes.
C23_EveryCallTerminates ==
  \A c \in Calls : (calls[c].pc # "idle") ~> Finished(calls[c])

\* C23 witness: a call settled after a full polling loop, another after its retry
C23_Witness ==
  \E c, d \in Calls :
    /\ c # d
    /\ Finished(calls[c]) /\ calls[c].runs = 2
    /\ Finished(calls[d]) /\ calls[d].runs = 1 /\ calls[d].pc = "failed"
    /\ \A o \in Origins : originStatus[o] = "pending"

\* a call in flight can always take its next step
CallStepEnabled == \A c \in Calls : InFlight(c) => ENABLED CallStep(c)

\* the record of a call in flight changes in the steps of that call and in no other
CallStepMoves ==
  [][\A c \in Calls :
       /\ (InFlight(c) /\ calls'[c] # calls[c]) => CallStep(c)
       /\ CallStep(c) => calls'[c] # calls[c]]_vars

\* the header bag is flagged and there: its headers are what the decoded headers hold
BagDecoded(p) == p.headersAreEncoded /\ p.bagPresent

\* C27: decodeResponse follows the flags of the wire header.  For every combination
\* of the two flags, with the header bag there or not, it does not throw; a header
\* named in a flagged bag has the bag's value, every other header its value on the
\* wire; a flagged body is the plaintext of the body on the wire, an unflagged body
\* the body on the wire.
C27_DecodeFollowsFlags ==
  codec.kind = "wire" =>
    /\ codec.pc # "threw"
    /\ codec.pc \in {"decoded", "returned"} =>
         LET p == codec.parts
         IN  /\ \A n \in HeaderNames :
                  codec.decoded.headers[n] =
                    IF BagDecoded(p) /\ p.bag[n] # <<>> THEN p.bag[n]
                    ELSE codec.encoded.headers[n]
             /\ codec.decoded.body = p.body

\* C22: every pool holds at most its size and only handles that hold no session;
\* a call that gives its handle back to a full pool leaves the pool as it is and the
\* handle is destructed, a call that gives it back to a pool with room adds it blank.
C22_PoolsBoundedAndBlank ==
  /\ [](engine.pc = "loaded" =>
          \A q \in PoolNames :
            /\ Len(engine.pools[q]) <= poolSizeOf(engine, q)
            /\ \A i \in 1..Len(engine.pools[q]) : engine.pools[q][i] = Blank)
  /\ [][\A o \in EngineCalls :
          (engine.calls[o].held /\ ~engine'.calls[o].held) =>
            LET q == poolOf(engine.calls[o].kind, engine.calls[o].type)
            IN  IF Len(engine.pools[q]) = poolSizeOf(engine, q)
                  THEN /\ engine'.pools[q] = engine.pools[q]
                       /\ engine'.destructed = engine.destructed + 1
                  ELSE /\ engine'.pools[q] = Append(engine.pools[q], Blank)
                       /\ engine'.destructed = engine.destructed]_vars

\* a handle came back to a full pool and was destructed; another came back and was pooled
C22_Witness ==
  /\ engine.pc = "loaded"
  /\ engine.destructed > 0
  /\ \E o \in EngineCalls : engine.calls[o].pc = "done"
  /\ \E q \in PoolNames : Len(engine.pools[q]) = poolSizeOf(engine, q)

\* call o has read the state under its key and has not yet written
BetweenReadAndWrite(o) ==
  engine.calls[o].pc = "got" /\ engine.calls[o].read # NoState

\* C26: encode and decode are atomic per state key.  No two calls on the same key
\* are between their read and their write at once (so no two restore the same state
\* value), and when a call writes, the cache still holds under its key the state
\* the call read (so the write overwrites no update made after the read).
C26_CallsAtomicOnKey ==
  /\ [](engine.pc = "loaded" =>
          \A o1 \in EngineCalls, o2 \in EngineCalls :
            (o1 # o2 /\ BetweenReadAndWrite(o1) /\ BetweenReadAndWrite(o2))
              => engine.calls[o1].kind # engine.calls[o2].kind)
  /\ [][\A o \in EngineCalls :
          (BetweenReadAndWrite(o) /\ engine'.calls[o].pc = "set")
            => engine.store[keyOf(engine.calls[o].kind)] = engine.calls[o].read]_vars

\* call o writes the state under its key in this step
Writes(o) == engine.calls[o].pc = "got" /\ engine'.calls[o].pc = "set"

\* call o returns its results in this step
Returns(o) == engine.calls[o].pc = "set" /\ engine'.calls[o].pc = "done"

\* the write of a call stores the successor of the state the call read
WriteIsSuccessor ==
  [][\A o \in EngineCalls :
       Writes(o) =>
         engine'.store[keyOf(engine.calls[o].kind)]
           = successor(engine.calls[o].read, processed(engine.calls[o]))]_vars

\* C30: a successful encode or decode that put at least one item through the engine
\* has replaced the state under its key: what it writes is not the state it read, and
\* when it returns the cache does not hold under its key the state it read.
C30_StateReplaced ==
  [][\A o \in EngineCalls :
       LET c == engine.calls[o]
       IN  /\ (Writes(o) /\ processed(c) >= 1)
                => engine'.store[keyOf(c.kind)] # c.read
           /\ (Returns(o) /\ processed(c) >= 1)
                => engine'.store[keyOf(c.kind)] # c.read]_vars

\* call c receives the response to its primary request in this step: the wire header
\* is there, it carries a clientId, the call goes on to decodeResponse
Receives(c) == calls[c].pc = "sent" /\ calls'[c].pc = "responded"

\* decodeResponse of call c throws in this step
DecodeFails(c) == calls[c].pc = "responded" /\ calls'[c].pc \notin {"responded", "done"}

\* C31: the step that receives a response whose wire header carries clientId C leaves
\* C as the clientId of the origin, in the cache and in localStorage, and getClientId
\* returns it; a decodeResponse that fails afterwards does not change the clientId.
C31_ClientIdFromResponse ==
  [][\A c \in Calls :
       LET o == calls[c].origin
       IN  /\ Receives(c) =>
                /\ calls'[c].respClientId \in ClientIds
                /\ clientIdCache'[o] = calls'[c].respClientId
                /\ localStorage'[o] = calls'[c].respClientId
           /\ DecodeFails(c) =>
                /\ clientIdCache'[o] = clientIdCache[o]
                /\ localStorage'[o] = localStorage[o]]_vars

\* a response carried c2, the decode of it failed, and c2 is the cached clientId
C31_Witness ==
  \E c \in Calls :
    /\ calls[c].caught.mte /\ calls[c].caught.status \in DecodeFailures
    /\ clientIdCache[calls[c].origin] = "c2"
    /\ localStorage[calls[c].origin] = "c2"

\* call c evicts its pair in this step: its catch block caught an MteRelayError other
\* than 566, deletePairIdFromQueue did not throw, and the call retried or, on its
\* last attempt, rejected with that error
Evicts(c) ==
  /\ calls[c].pc \notin {"idle", "done", "failed"}
  /\ calls'[c] # calls[c]
  /\ calls'[c].pc \in {"status", "failed"}
  /\ calls'[c].caught.mte /\ calls'[c].caught.status # InvalidClientId
  /\ calls'[c].runs > calls[c].runs \/ calls'[c].outcome.mte

\* q without its k-th element
Spliced(q, k) == SubSeq(q, 1, k - 1) \o SubSeq(q, k + 1, Len(q))

\* C32: an eviction takes exactly the evicted id out of the origin's queue, the other
\* ids stay in their order, and the state cache is the same after it as before: the
\* encoder and decoder states of the evicted pair are still there.
C32_EvictionTouchesQueueOnly ==
  [][\A c \in Calls :
       Evicts(c) =>
         LET o == calls[c].origin
             q == pairIds[o].ids
         IN  /\ \E k \in 1..Len(q) :
                  /\ q[k] = calls[c].pairId
                  /\ pairIds'[o] = Queue(Spliced(q, k))
             /\ encDecState' = encDecState]_vars

\* a pair was evicted from a queue that still holds another pair, and both states of
\* the evicted pair are in the state cache
C32_Witness ==
  \E c \in Calls, p \in 1..(nextId - 1) :
    LET o == calls[c].origin
    IN  /\ calls[c].runs = 2 /\ calls[c].firstErr.mte
        /\ calls[c].firstErr.status # InvalidClientId
        /\ ~InSeq(p, pairIds[o].ids) /\ pairIds[o].ids # <<>>
        /\ StateKey("encoder", o, p) \in encDecState
        /\ StateKey("decoder", o, p) \in encDecState

\* C33 as stated: after an eviction neither state of the evicted pair is in the state
\* cache.
C33_EvictedStatesDestroyed ==
  [][\A c \in Calls :
       Evicts(c) =>
         /\ StateKey("encoder", calls[c].origin, calls[c].pairId) \notin encDecState'
         /\ StateKey("decoder", calls[c].origin, calls[c].pairId) \notin encDecState']_vars

\* C33, amended: nothing ever removes a session state from the state cache; the
\* states of an evicted pair that were there before the eviction are there after it.
C33_EvictedStatesRemain ==
  /\ [][encDecState \subseteq encDecState']_vars
  /\ [][\A c \in Calls, role \in {"encoder", "decoder"} :
          (Evicts(c) /\ StateKey(role, calls[c].origin, calls[c].pairId) \in encDecState)
            => StateKey(role, calls[c].origin, calls[c].pairId) \in encDecState']_vars

\* a call evicted its pair and retried; the evicted pair's states are still cached
\* though no queue holds the pair
C33_Witness ==
  \E c \in Calls :
    LET o == calls[c].origin
        p == calls[c].failedPair
    IN  /\ calls[c].runs = 2 /\ calls[c].caught.mte
        /\ calls[c].caught.status \in DecodeFailures
        /\ p # 0 /\ ~InSeq(p, pairIds[o].ids)
        /\ StateKey("encoder", o, p) \in encDecState
        /\ StateKey("decoder", o, p) \in encDecState

\* C34: decode throws 564 exactly when the reseed counter of the restored decoder is
\* more than nine tenths of its reseed interval, and it throws before it decodes an
\* item.
C34_ReseedAtNineTenths ==
  engine.pc \in {"threw", "checked", "decoded"} =>
    /\ engine.pc = "threw" <=> aboveNineTenths(engine.counter, engine.interval)
    /\ engine.pc = "threw" => engine.status = DrbgReseedRequired /\ engine.decoded = 0

\* call o of the given kind takes the state in this step
Takes(o, kind) ==
  /\ engine.calls[o].pc = "idle" /\ engine'.calls[o].pc = "took"
  /\ engine'.calls[o].kind = kind

\* C35: with the in-memory store, the take of an encode hands out the encoder state
\* and leaves none in the store, so while an encode holds a state and has not saved
\* the next one the store has no encoder state and a second encode gets none (it
\* fails with State not found); the take of a decode hands out the decoder state and
\* leaves the store as it was.
C35_TakeRemovesEncoderState ==
  /\ [](engine.pc = "legacy" =>
          \A o \in LegacyCalls :
            (engine.calls[o].pc = "took" /\ engine.calls[o].kind = "encode"
               /\ engine.calls[o].currentState # NoState)
              => engine.store["encoder"] = NoState)
  /\ [][\A o \in LegacyCalls :
          /\ Takes(o, "encode") =>
               /\ engine'.calls[o].currentState = engine.store["encoder"]
               /\ engine'.store["encoder"] = NoState
          /\ Takes(o, "decode") =>
               /\ engine'.calls[o].currentState = engine.store["decoder"]
               /\ engine'.store = engine.store]_vars

\* the same, for servers whose id does not hold the word decoder
TakeByRole ==
  engine.pc = "legacy" /\ ~includesDecoder(engine.serverId) =>
    /\ \A o \in LegacyCalls :
         (engine.calls[o].pc = "took" /\ engine.calls[o].kind = "encode"
            /\ engine.calls[o].currentState # NoState)
           => engine.store["encoder"] = NoState
    /\ \A o1 \in LegacyCalls, o2 \in LegacyCalls :
         (o1 # o2 /\ engine.calls[o1].kind = "encode" /\ engine.calls[o2].kind = "encode"
            /\ engine.calls[o1].pc = "took" /\ engine.calls[o2].pc = "took")
           => engine.calls[o1].currentState = NoState
                \/ engine.calls[o2].currentState = NoState


\* call o, a decode, fails in this step
DecodeCallFails(o) ==
  /\ engine.calls[o].pc = "got" /\ engine.calls[o].kind = "decode"
  /\ engine'.calls[o].pc = "failed"

\* call o, a decode, is made in this step
DecodeCallStarts(o) ==
  /\ engine.calls[o].pc = "idle" /\ engine'.calls[o].pc = "got"
  /\ engine'.calls[o].kind = "decode"

\* C36: a decode call that fails (no state under its key, the restored decoder asks
\* for a reseed, or the engine refuses an item) writes nothing: neither its first
\* step nor the step in which it throws changes the state cache.
C36_FailedDecodeWritesNothing ==
  [][\A o \in EngineCalls :
       (DecodeCallStarts(o) \/ DecodeCallFails(o)) => engine'.store = engine.store]_vars

\* a decode has failed while the cache holds a decoder state
C36_Witness ==
  /\ engine.pc = "loaded"
  /\ engine.store[keyOf("decode")] # NoState
  /\ \E o \in EngineCalls : engine.calls[o].pc = "failed"
  /\ \A o \in EngineCalls : engine.calls[o].pc \in {"idle", "failed"}


\* the catch block of call c handles a 566 in this step and starts the retry that
\* revalidates the server
CatchesRotation(c) ==
  /\ calls'[c].runs > calls[c].runs
  /\ calls'[c].caught.mte /\ calls'[c].caught.status = InvalidClientId

\* call c, revalidating, takes a step of its validation or pairing
RevalidationStep(c) ==
  /\ calls[c].revalidateServer
  /\ calls[c].pc \in {"status", "probe", "validated", "pairing"}
  /\ calls'[c] # calls[c]

\* the pair ids that the pairing of call c has put in the queue so far
Enqueued(t) ==
  IF t.pc = "dec" THEN {t.first + k : k \in 0..(t.j - 1)}
  ELSE IF t.pc = "loop" THEN {t.first + k : k \in 0..(t.j - 2)}
  ELSE {}

BackgroundFails(k) ==
  /\ bg[k].pc \in {"post", "json"}
  /\ bg'[k].pc = "failed"

\* C38: a background replacement pairing that fails before it has negotiated a pair
\* leaves the status of the origin (paired stays paired), its queue and the state
\* cache as they were, none of its pair ids is in the queue, and no call is changed by
\* it: the retry goes on.
C38_BackgroundFailureIsSilent ==
  [][\A k \in DOMAIN bg :
       BackgroundFails(k) =>
         /\ originStatus' = originStatus
         /\ pairIds' = pairIds
         /\ encDecState' = encDecState
         /\ calls' = calls
         /\ TaskIds(bg[k]) \cap QueuedIds(bg[k].origin) = {}]_vars

\* a background pairing failed without a pair, the origin is paired, and the retry of
\* the call that evicted a pair has resolved
C38_Witness ==
  \E k \in DOMAIN bg, c \in Calls :
    /\ bg[k].pc = "failed" /\ ~bg[k].err.mte
    /\ StateKey("encoder", bg[k].origin, bg[k].first) \notin encDecState
    /\ originStatus[bg[k].origin] = "paired"
    /\ calls[c].origin = bg[k].origin
    /\ calls[c].runs = 2 /\ calls[c].firstErr.mte
    /\ calls[c].firstErr.status # InvalidClientId
    /\ calls[c].pc = "done"


\* what the cache holds for origin y is the same after the step as before: its status,
\* its clientId (cached and in localStorage), its queue, and the encoder and decoder
\* states of the pairs of its queue that are in the set ids
SameFor(y, ids) ==
  /\ engine'.cache[statusKey(y)] = engine.cache[statusKey(y)]
  /\ engine'.cache[clientIdKey(y)] = engine.cache[clientIdKey(y)]
  /\ engine'.localStorage[clientIdKey(y)] = engine.localStorage[clientIdKey(y)]
  /\ engine'.cache[queueKey(y)] = engine.cache[queueKey(y)]
  /\ \A i \in 1..Len(engine.cache[queueKey(y)]), r \in Roles :
       LET p == engine.cache[queueKey(y)][i]
       IN  p \in ids =>
             engine'.cache[stateKeyOf(r, y, p)] = engine.cache[stateKeyOf(r, y, p)]

\* C39: an operation done for one origin leaves the status, the clientId, the queue
\* and the session states of every other origin as they were.
C39_OriginsIsolated ==
  [][engine.pc = "cache" =>
       \A y \in Hosts \ {engine'.origin} : SameFor(y, AnsweredIds)]_vars

\* the same, for operations that use a pair id without a dot and the pairs with such
\* ids
IsolatedWithGeneratedIds ==
  [][(engine.pc = "cache" /\ Len(engine'.pairId) <= 1) =>
       \A y \in Hosts \ {engine'.origin} :
         SameFor(y, GeneratedIds)]_vars

====
